---- MODULE Spec2Model ----
(***************************************************************************)
(* ESPKenisis Radio Link Manager: the channel model, the target model with *)
(* its override payload, and the serial reader's line framer.              *)
(*                                                                         *)
(*   Spec         one registry Target (src/models/target.py) driven by the *)
(*                operator (set_override, reset_to_default, set_state,     *)
(*                reset_overrides, the UI's override toggle and channel    *)
(*                selection) and by telemetry merges (update_from_data).   *)
(*   SpecChannel  one free-standing ContinuousChannel with arbitrary       *)
(*                bounds (src/models/channel.py).                          *)
(*   SpecFramer   the read loop of ESPKenisisManager._read_serial over a   *)
(*                byte stream cut into arbitrary chunks.                   *)
(*   SpecManager  ESPKenisisManager (src/core/manager.py): the foreground  *)
(*                calls connect, disconnect, get_target_ids and the UI's   *)
(*                override toggle, interleaved with the steps of the       *)
(*                reader threads over the records the peer sends.          *)
(*   SpecReconnect  the same manager over connect, disconnect and connect  *)
(*                again, with reads that end inside a line and a different *)
(*                text on each connection.                                 *)
(*   SpecReconnectFair  SpecReconnect under fair scheduling of the reader  *)
(*                threads.                                                 *)
(*   SpecReopen   the manager with connect also called while connected.    *)
(*   SpecRegistry get_target_ids and get_target beside a merging reader.   *)
(*   SpecUI, SpecUIFair  ESPKenisisUI (src/ui/main_window.py): the target  *)
(*                callback and the event loop's deferred frame rebuild.    *)
(*   SpecEncode   send_target_override and a merge into the same Target,   *)
(*                one channel at a time.                                   *)
(***************************************************************************)
EXTENDS Integers, Sequences, FiniteSets, TLC

VARIABLES
    target,     \* the Target object under test (a registry entry)
    intent,     \* history: per continuous channel, the v of the operator's
                \* last set_override not yet undone by reset_to_default
    reported,   \* history: per channel, the raw number set_value stored
                \* since the operator last wrote the channel's value
    ops,        \* number of operations performed on the target
    chan,       \* SpecChannel: the free-standing ContinuousChannel
    chanOp,     \* SpecChannel: the last operation applied to chan
    stream,     \* SpecFramer: the bytes the peer sends on this connection;
                \* SpecManager: the text the peer sends on each connection;
                \* SpecReconnect: one text for each connection
    wire,       \* SpecFramer: bytes not yet returned by serial read
    buffer,     \* SpecFramer: _read_serial's local `buffer`
    handed,     \* SpecFramer: the records passed to json.loads, in order
    is_running, \* ESPKenisisManager.is_running
    errors,     \* the messages given to callback_on_error, in order
    conns,      \* SpecManager: the serial.Serial objects opened so far
    serial_conn,\* SpecManager: ESPKenisisManager.serial_conn, an index into
                \* conns, or 0 for None
    port,       \* SpecManager: ESPKenisisManager.port
    is_connected, \* SpecManager: ESPKenisisManager.is_connected
    read_thread,\* SpecManager: ESPKenisisManager.read_thread, an index into
                \* threads, or 0 for None
    threads,    \* SpecManager: the reader threads started so far, each with
                \* its position in _read_serial and its local variables
    targets,    \* SpecManager: ESPKenisisManager.targets
    updates,    \* SpecManager: the messages given to
                \* callback_on_targets_update, in order
    merges,     \* SpecManager, history: the batch entries merged, in order
    fg,         \* SpecManager: where the foreground thread is
    calls,      \* SpecManager: number of calls the foreground has made
    returned,   \* SpecManager, history: the foreground's last call and
                \* what it returned
    ui,         \* SpecUI: the fields of ESPKenisisUI the target callback and
                \* the event loop use, and the event loop's position
    inflight    \* SpecEncode: the two loops over a target's channels that
                \* are under way, get_override_payload's in the foreground
                \* and update_from_data's in the reader thread

vars == <<target, intent, reported, ops, chan, chanOp,
          stream, wire, buffer, handed, is_running, errors,
          conns, serial_conn, port, is_connected, read_thread, threads,
          targets, updates, merges, fg, calls, returned, ui, inflight>>

targetVars == <<target, intent, reported, ops>>
chanVars   == <<chan, chanOp>>
framerVars == <<stream, wire, buffer, handed, is_running, errors>>
mgrVars    == <<conns, serial_conn, port, is_connected, read_thread, threads,
                targets, updates, merges, fg, calls, returned, ui, inflight>>

(***************************************************************************)
(* Bounds of the model.                                                    *)
(***************************************************************************)
\* Operations performed on the target in one run of Spec.
MaxOps == 4
\* Length in bytes of the stream of one run of SpecFramer.
MaxStream == 6
\* Calls the foreground makes in one run of SpecManager.
MaxCalls == 3

(***************************************************************************)
(* Python values.                                                          *)
(***************************************************************************)
\* Optional[int]: None, or a present number.
None == <<>>
Some(v) == <<v>>

Max(a, b) == IF a >= b THEN a ELSE b
Min(a, b) == IF a <= b THEN a ELSE b

\* A dict is a function from its keys; d.update(e).
EmptyDict == [k \in {} |-> None]
DictUpdate(d, e) ==
    [k \in (DOMAIN d) \cup (DOMAIN e) |-> IF k \in DOMAIN e THEN e[k] ELSE d[k]]

\* JSON values carry their Python type, as isinstance sees it.
JNum(n)  == [t |-> "int",  int |-> n]
JStr(s)  == [t |-> "str",  str |-> s]
JList(q) == [t |-> "list", list |-> q]
JBool(b) == [t |-> "bool", bool |-> b]
IsList(j) == j.t = "list"

\* str(n) for a non-negative int.
Digit == <<"0", "1", "2", "3", "4", "5", "6", "7", "8", "9">>
RECURSIVE Str(_)
Str(n) == IF n < 10 THEN Digit[n + 1] ELSE Str(n \div 10) \o Digit[(n % 10) + 1]

(***************************************************************************)
(* src/models/channel.py                                                   *)
(***************************************************************************)
\* class ChannelState(Enum): the members, and the .value auto() gives each.
ChannelState == {"DEFAULT", "STATE_1", "STATE_2", "STATE_3"}
EnumValue(s) ==
    CASE s = "DEFAULT" -> 1
      [] s = "STATE_1" -> 2
      [] s = "STATE_2" -> 3
      [] s = "STATE_3" -> 4

\* ContinuousChannel(name, n, min_value=, max_value=, default_value=) after
\* __post_init__.
ContinuousChannel(name, n, mn, mx, df) ==
    [channel_type   |-> "CONTINUOUS",
     name           |-> name,
     channel_number |-> n,
     value          |-> df,
     min_value      |-> mn,
     max_value      |-> mx,
     default_value  |-> df,
     override_value |-> None]

\* The state -> value table DiscreteChannel.__post_init__ installs.
DefaultStateValues ==
    [s \in ChannelState |->
        CASE s = "DEFAULT" -> 0
          [] s = "STATE_1" -> 1000
          [] s = "STATE_2" -> 1500
          [] s = "STATE_3" -> 2000]

\* DiscreteChannel(name, n, states) after __post_init__, as
\* Target.__post_init__ means to build it: the list it passes is the
\* channel's `states`.  (As declared, `states` is a field without default
\* after the base class's defaulted fields, which dataclasses reject when the
\* class is created, and the third positional argument is `value`.)
DiscreteChannel(name, n, states) ==
    [channel_type   |-> "DISCRETE",
     name           |-> name,
     channel_number |-> n,
     value          |-> 0,
     states         |-> states,
     state          |-> "DEFAULT",
     state_values   |-> DefaultStateValues]

IsContinuous(c) == c.channel_type = "CONTINUOUS"
IsDiscrete(c)   == c.channel_type = "DISCRETE"

\* Channel.set_value
set_value(c, v) == [c EXCEPT !.value = v]

\* ContinuousChannel.reset_to_default
reset_to_default(c) ==
    [c EXCEPT !.override_value = None, !.value = c.default_value]

\* Mutant: set_override clamps v from above only.
set_override_upper_only(c, v) ==
    LET clamped_value == Min(v, c.max_value)
    IN  [c EXCEPT !.override_value = Some(clamped_value),
                  !.value = clamped_value]

\* Mutant: set_override stores v without clamping it.
set_override_unclamped(c, v) ==
    [c EXCEPT !.override_value = Some(v), !.value = v]

\* ContinuousChannel.set_override
set_override(c, v) ==
    LET clamped_value == Max(c.min_value, Min(v, c.max_value))
    IN  [c EXCEPT !.override_value = Some(clamped_value),
                  !.value = clamped_value]

\* DiscreteChannel.set_state
set_state(c, s) ==
    IF s \in DOMAIN c.state_values
    THEN [c EXCEPT !.state = s, !.value = c.state_values[s]]
    ELSE c

(***************************************************************************)
(* src/models/target.py                                                    *)
(***************************************************************************)
\* The channel layout Target.__post_init__ builds.
DefaultChannels ==
    (1 :> ContinuousChannel("Aileron", 1, 1000, 2000, 1500)) @@
    (2 :> ContinuousChannel("Elevator", 2, 1000, 2000, 1500)) @@
    (3 :> ContinuousChannel("Throttle", 3, 1000, 2000, 1000)) @@
    (4 :> ContinuousChannel("Rudder", 4, 1000, 2000, 1500)) @@
    (5 :> DiscreteChannel("Arm", 5, <<"ARMED", "DISARMED">>)) @@
    (6 :> DiscreteChannel("Kill", 6, <<"KILLED", "ACTIVE">>)) @@
    (7 :> DiscreteChannel("Flight Mode", 7, <<"MANUAL", "POSITION", "MISSION">>)) @@
    (8 :> DiscreteChannel("Offboard", 8, <<"ENABLED", "DISABLED">>))

\* Target(id=i)
NewTarget(i) ==
    [id               |-> i,
     channels         |-> DefaultChannels,
     override_enabled |-> FALSE,
     last_update_time |-> 0,
     signal_strength  |-> 0,
     battery_voltage  |-> 0,
     status           |-> "Unknown",
     custom_data      |-> EmptyDict]

\* Mutant: the encoder forgets to leave out the channels at default.
PayloadChannelsAll(t) ==
    IF t.override_enabled THEN DOMAIN t.channels ELSE {}

\* Mutant: the encoder does not look at override_enabled.
PayloadChannelsUnarmed(t) ==
    {n \in DOMAIN t.channels :
        \/ IsDiscrete(t.channels[n]) /\ t.channels[n].state # "DEFAULT"
        \/ IsContinuous(t.channels[n]) /\ t.channels[n].override_value # None}

\* Mutant: the encoder tests a discrete channel's number, not its state.
PayloadChannelsByValue(t) ==
    IF t.override_enabled
    THEN {n \in DOMAIN t.channels :
            \/ IsDiscrete(t.channels[n]) /\ t.channels[n].value # 0
            \/ IsContinuous(t.channels[n])
                 /\ t.channels[n].override_value # None}
    ELSE {}

\* The channels get_override_payload writes an entry for.
PayloadChannels(t) ==
    IF t.override_enabled
    THEN {n \in DOMAIN t.channels :
            \/ IsDiscrete(t.channels[n]) /\ t.channels[n].state # "DEFAULT"
            \/ IsContinuous(t.channels[n])
                 /\ t.channels[n].override_value # None}
    ELSE {}

\* The number get_override_payload writes for a channel it keeps.
PayloadValue(c) == IF IsDiscrete(c) THEN EnumValue(c.state) ELSE c.value

\* Target.get_override_payload
get_override_payload(t) ==
    LET kept == PayloadChannels(t)
        num(k) == CHOOSE n \in kept : Str(n) = k
    IN  [id       |-> t.id,
         override |-> t.override_enabled,
         channels |-> [k \in {Str(n) : n \in kept} |->
                          PayloadValue(t.channels[num(k)])]]

\* The keys update_from_data does not copy into custom_data.
NotCustomKeys == {"id", "channels", "last_successful_send"}

\* Mutant: the channels array is applied from index 0, as enumerate does
\* without its start argument.
update_from_data_zero_based(t, data, now) ==
    LET positional ==
            "channels" \in DOMAIN data /\ IsList(data["channels"])
        channel_array == data["channels"].list
        merged ==
            [n \in DOMAIN t.channels |->
                IF positional /\ n + 1 \in 1..Len(channel_array)
                THEN set_value(t.channels[n], channel_array[n + 1])
                ELSE t.channels[n]]
        extra == [k \in (DOMAIN data) \ NotCustomKeys |-> data[k]]
    IN  [t EXCEPT !.last_update_time = now,
                  !.channels = merged,
                  !.custom_data = DictUpdate(t.custom_data, extra)]

\* Mutant: an element beyond the last channel makes a channel of its own.
update_from_data_growing(t, data, now) ==
    LET positional ==
            "channels" \in DOMAIN data /\ IsList(data["channels"])
        channel_array == data["channels"].list
        numbers == IF positional
                   THEN (DOMAIN t.channels) \cup (1..Len(channel_array))
                   ELSE DOMAIN t.channels
        merged ==
            [n \in numbers |->
                IF positional /\ n \in 1..Len(channel_array)
                THEN IF n \in DOMAIN t.channels
                     THEN set_value(t.channels[n], channel_array[n])
                     ELSE set_value(ContinuousChannel("Channel", n, 0, 1000, 500),
                                    channel_array[n])
                ELSE t.channels[n]]
        extra == [k \in (DOMAIN data) \ NotCustomKeys |-> data[k]]
    IN  [t EXCEPT !.last_update_time = now,
                  !.channels = merged,
                  !.custom_data = DictUpdate(t.custom_data, extra)]

\* Mutant: a reported number is added to the channel's value.
update_from_data_accumulating(t, data, now) ==
    LET positional ==
            "channels" \in DOMAIN data /\ IsList(data["channels"])
        channel_array == data["channels"].list
        merged ==
            [n \in DOMAIN t.channels |->
                IF positional /\ n \in 1..Len(channel_array)
                THEN set_value(t.channels[n], t.channels[n].value + channel_array[n])
                ELSE t.channels[n]]
        extra == [k \in (DOMAIN data) \ NotCustomKeys |-> data[k]]
    IN  [t EXCEPT !.last_update_time = now,
                  !.channels = merged,
                  !.custom_data = DictUpdate(t.custom_data, extra)]

\* Mutant: an entry's `override` key sets the target's override switch.
update_from_data_taking_override(t, data, now) ==
    LET positional ==
            "channels" \in DOMAIN data /\ IsList(data["channels"])
        channel_array == data["channels"].list
        merged ==
            [n \in DOMAIN t.channels |->
                IF positional /\ n \in 1..Len(channel_array)
                THEN set_value(t.channels[n], channel_array[n])
                ELSE t.channels[n]]
        extra == [k \in (DOMAIN data) \ NotCustomKeys |-> data[k]]
    IN  [t EXCEPT !.last_update_time = now,
                  !.channels = merged,
                  !.override_enabled =
                      IF "override" \in DOMAIN data
                      THEN data["override"].bool ELSE @,
                  !.custom_data = DictUpdate(t.custom_data, extra)]

\* Target.update_from_data, called at time `now`.
update_from_data(t, data, now) ==
    LET positional ==
            "channels" \in DOMAIN data /\ IsList(data["channels"])
        channel_array == data["channels"].list
        merged ==
            [n \in DOMAIN t.channels |->
                IF positional /\ n \in 1..Len(channel_array)
                THEN set_value(t.channels[n], channel_array[n])
                ELSE t.channels[n]]
        extra == [k \in (DOMAIN data) \ NotCustomKeys |-> data[k]]
    IN  [t EXCEPT !.last_update_time = now,
                  !.channels = merged,
                  !.custom_data = DictUpdate(t.custom_data, extra)]

\* Mutant: reset_overrides resets the continuous channels only.
reset_overrides_continuous_only(t) ==
    [t EXCEPT !.override_enabled = FALSE,
              !.channels =
                 [n \in DOMAIN t.channels |->
                    IF IsDiscrete(t.channels[n])
                    THEN t.channels[n]
                    ELSE reset_to_default(t.channels[n])]]

\* Target.reset_overrides
reset_overrides(t) ==
    [t EXCEPT !.override_enabled = FALSE,
              !.channels =
                 [n \in DOMAIN t.channels |->
                    IF IsDiscrete(t.channels[n])
                    THEN set_state(t.channels[n], "DEFAULT")
                    ELSE reset_to_default(t.channels[n])]]

\* ESPKenisisUI.__init__ (main_window.py 17-27) and _init_ui, which creates
\* the window (119-126) and, the registry being empty, no frame: the fields
\* of a UI just constructed.  last_frame_update is "zero" (the number 0),
\* "recent" (a time at most three seconds ago) or "past".  `events` holds
\* the values posted with write_event_value and not yet read.  Two
\* positions: `seen` counts the notifications of `updates` that
\* _on_targets_update has handled, `handled` the calls of the manager whose
\* event handler has run to its end, and `at` tells where run() is.
UiConstructed ==
    [window               |-> TRUE,
     target_frames        |-> {},
     frame_update_pending |-> FALSE,
     last_frame_update    |-> "zero",
     events               |-> <<>>,
     seen                 |-> 0,
     handled              |-> 0,
     at                   |-> "read"]

\* No call of get_override_payload and none of update_from_data is under
\* way.  `enc` is the encoder: the payload built so far and the number of
\* the channel the loop of target.py 55-59 comes to next; `merge` is the
\* merge: the entry, the target as it was when the merge began, and the
\* index the loop of lines 82-85 comes to next.  `existed` is history: the
\* payloads of the states the target has been in since the encoder began.
NothingInFlight ==
    [enc     |-> [on |-> FALSE, payload |-> <<>>, next |-> 0],
     merge   |-> [on |-> FALSE, data |-> <<>>, before |-> <<>>, next |-> 0],
     existed |-> {}]

\* ESPKenisisManager.__init__: the fields of a manager just constructed, by
\* the UI that owns it (main_window.py 19-22).
ManagerConstructed ==
    /\ ui = UiConstructed
    /\ inflight = NothingInFlight
    /\ conns = <<>>
    /\ serial_conn = 0
    /\ port = None
    /\ is_connected = FALSE
    /\ read_thread = 0
    /\ threads = <<>>
    /\ targets = EmptyDict
    /\ updates = <<>>
    /\ merges = <<>>
    /\ fg = "idle"
    /\ calls = 0
    /\ returned = [op |-> "__init__"]

(***************************************************************************)
(* Spec: one Target, the operator and the telemetry merges.                *)
(***************************************************************************)
ContinuousNumbers == {n \in DOMAIN DefaultChannels : IsContinuous(DefaultChannels[n])}
DiscreteNumbers   == {n \in DOMAIN DefaultChannels : IsDiscrete(DefaultChannels[n])}

\* The values the operator passes to set_override: below, inside and above
\* the range of the layout's continuous channels.
OverrideInputs == {900, 1200, 2100}

\* The arguments passed to set_state: the enum's members, and an object that
\* is no key of the table.
StateInputs == ChannelState \cup {"NOT_A_STATE"}

\* Entries of a targets_update batch for this target.  The first channels
\* array is the one update_from_data's comment gives; the others are shorter
\* and longer than the layout, absent, and not a list.  Two entries carry
\* keys named as the operator's switch is: `override`, as in the payload of
\* set_override, and `override_enabled`, as the attribute.
TelemetryEntries ==
    { ("id" :> JNum(3)) @@ ("channels" :> JList(<<6, 12, 6, 6, 4, 7, 4, 4>>)) @@
          ("override" :> JBool(TRUE)),
      ("id" :> JNum(3)) @@ ("channels" :> JList(<<1200, 2500>>)),
      ("id" :> JNum(3)) @@
          ("channels" :> JList(<<1500, 1500, 1000, 1500, 0, 1500, 0, 0, 1800>>)),
      ("id" :> JNum(3)) @@ ("signal" :> JNum(80)) @@ ("battery" :> JNum(74)),
      ("id" :> JNum(3)) @@ ("channels" :> JStr("6,12")) @@
          ("override_enabled" :> JBool(TRUE)) }

\* The strings the channel's combo box offers (ESPKenisisUI._create_target_frame).
ComboOptions(c) ==
    {"DEFAULT"} \cup
    (IF IsDiscrete(c) THEN {c.states[i] : i \in 1..Len(c.states)} ELSE {})

\* ESPKenisisUI._handle_channel_change on a channel of the target.  Reading
\* channel.state of a ContinuousChannel, and channel.has_third_state of any
\* channel of models/channel.py, raises AttributeError: the event loop
\* catches it and nothing has changed.
handle_channel_change(c, value) ==
    IF ~IsDiscrete(c) THEN c
    ELSE IF value = "DEFAULT" THEN [c EXCEPT !.state = "DEFAULT"]
    ELSE IF value = c.states[1] THEN [c EXCEPT !.state = "STATE_1"]
    ELSE IF value = c.states[2] THEN [c EXCEPT !.state = "STATE_2"]
    ELSE c

Init ==
    /\ target = NewTarget(3)
    /\ intent = [n \in ContinuousNumbers |-> None]
    /\ reported = [n \in DOMAIN DefaultChannels |-> None]
    /\ ops = 0
    /\ chan = ContinuousChannel("Channel", 1, 0, 1000, 500)
    /\ chanOp = [op |-> "init", arg |-> 0]
    /\ stream = <<>>
    /\ wire = <<>>
    /\ buffer = <<>>
    /\ handed = <<>>
    /\ is_running = FALSE
    /\ errors = <<>>
    /\ ManagerConstructed

\* target.channels[n].set_override(v)
SetOverride(n, v) ==
    /\ ops < MaxOps
    /\ target' = [target EXCEPT !.channels[n] = set_override(@, v)]
    /\ intent' = [intent EXCEPT ![n] = Some(v)]
    /\ reported' = [reported EXCEPT ![n] = None]
    /\ ops' = ops + 1
    /\ UNCHANGED <<chanVars, framerVars, mgrVars>>

\* target.channels[n].reset_to_default()
ResetToDefault(n) ==
    /\ ops < MaxOps
    /\ target' = [target EXCEPT !.channels[n] = reset_to_default(@)]
    /\ intent' = [intent EXCEPT ![n] = None]
    /\ reported' = [reported EXCEPT ![n] = None]
    /\ ops' = ops + 1
    /\ UNCHANGED <<chanVars, framerVars, mgrVars>>

\* target.channels[n].set_state(s)
SetState(n, s) ==
    /\ ops < MaxOps
    /\ target' = [target EXCEPT !.channels[n] = set_state(@, s)]
    /\ reported' = [reported EXCEPT ![n] =
                       IF s \in DOMAIN target.channels[n].state_values
                       THEN None ELSE @]
    /\ ops' = ops + 1
    /\ UNCHANGED <<intent, chanVars, framerVars, mgrVars>>

\* target.reset_overrides()
ResetOverrides ==
    /\ ops < MaxOps
    /\ target' = reset_overrides(target)
    /\ intent' = [n \in DOMAIN intent |-> None]
    /\ reported' = [n \in DOMAIN reported |-> None]
    /\ ops' = ops + 1
    /\ UNCHANGED <<chanVars, framerVars, mgrVars>>

\* The override button of the target's frame (ESPKenisisUI.run).
ToggleOverride ==
    /\ ops < MaxOps
    /\ target' = [target EXCEPT !.override_enabled = ~@]
    /\ ops' = ops + 1
    /\ UNCHANGED <<intent, reported, chanVars, framerVars, mgrVars>>

\* A selection in a channel's combo box (ESPKenisisUI._handle_channel_change).
HandleChannelChange(n, value) ==
    /\ ops < MaxOps
    /\ target' = [target EXCEPT !.channels[n] = handle_channel_change(@, value)]
    /\ ops' = ops + 1
    /\ UNCHANGED <<intent, reported, chanVars, framerVars, mgrVars>>

\* One entry of a targets_update batch is merged (target.update_from_data).
TelemetryMerge(data) ==
    /\ ops < MaxOps
    /\ target' = update_from_data(target, data, ops + 1)
    /\ reported' =
          [n \in DOMAIN reported |->
              IF /\ "channels" \in DOMAIN data
                 /\ IsList(data["channels"])
                 /\ n \in 1..Len(data["channels"].list)
              THEN Some(data["channels"].list[n])
              ELSE reported[n]]
    /\ ops' = ops + 1
    /\ UNCHANGED <<intent, chanVars, framerVars, mgrVars>>

Next ==
    \/ \E n \in ContinuousNumbers, v \in OverrideInputs : SetOverride(n, v)
    \/ \E n \in ContinuousNumbers : ResetToDefault(n)
    \/ \E n \in DiscreteNumbers, s \in StateInputs : SetState(n, s)
    \/ ResetOverrides
    \/ ToggleOverride
    \/ \E n \in DOMAIN target.channels :
          \E value \in ComboOptions(target.channels[n]) :
             HandleChannelChange(n, value)
    \/ \E data \in TelemetryEntries : TelemetryMerge(data)

Spec == Init /\ [][Next]_vars

(***************************************************************************)
(* Claims checked under Spec.                                              *)
(***************************************************************************)
Payload == get_override_payload(target)

\* v brought into [mn, mx], written out case by case.
Clamped(v, mn, mx) == IF v < mn THEN mn ELSE IF v > mx THEN mx ELSE v

\* The channels that deviate from default: a discrete channel whose state is
\* not DEFAULT, a continuous channel whose override value is present.
Deviates(c) ==
    IF c.channel_type = "DISCRETE"
    THEN c.state # "DEFAULT"
    ELSE c.override_value # None

\* C1: while override is enabled, the payload carries, for every continuous
\* channel on which the operator's last set_override(v) has not been undone
\* by reset_to_default, the number clamp(v, min_value, max_value), whatever
\* telemetry was merged in between.
C1_PayloadCarriesOperatorOverride ==
    \A n \in ContinuousNumbers :
        (target.override_enabled /\ intent[n] # None) =>
            /\ Str(n) \in DOMAIN Payload.channels
            /\ Payload.channels[Str(n)] =
                  Clamped(intent[n][1], target.channels[n].min_value,
                          target.channels[n].max_value)

\* C2: with override enabled, the keys of the payload's channel map are
\* exactly the numbers, as strings, of the channels that deviate from
\* default, one key per such channel.
C2_PayloadKeysAreTheDeviatingChannels ==
    target.override_enabled =>
        LET deviating == {n \in DOMAIN target.channels : Deviates(target.channels[n])}
        IN  /\ DOMAIN Payload.channels = {Str(n) : n \in deviating}
            /\ Cardinality(DOMAIN Payload.channels) = Cardinality(deviating)
            /\ \A n \in DOMAIN target.channels :
                  ~Deviates(target.channels[n]) => Str(n) \notin DOMAIN Payload.channels

\* C2 witness: override is on, channels 1 and 6 deviate, and the payload has
\* entries for these two alone.
C2_Witness ==
    /\ target.override_enabled
    /\ target.channels[1].override_value # None
    /\ target.channels[6].state = "STATE_2"
    /\ DOMAIN Payload.channels = {"1", "6"}

\* C3: with override disabled the payload has an empty channel map and
\* override false, whatever the channels hold.
C3_DisabledPayloadIsEmpty ==
    ~target.override_enabled =>
        /\ Payload.channels = EmptyDict
        /\ Payload.override = FALSE
        /\ Payload.id = target.id

\* C3 witness: override is off while a discrete channel is out of DEFAULT and
\* a continuous channel holds an override value.
C3_Witness ==
    /\ ~target.override_enabled
    /\ \E n \in DiscreteNumbers : target.channels[n].state # "DEFAULT"
    /\ \E n \in ContinuousNumbers : target.channels[n].override_value # None
    /\ DOMAIN Payload.channels = {}

\* C4 as stated: a discrete channel's entry is omitted from the payload if
\* and only if its state is DEFAULT, in every reachable state.
C4_OmittedIffDefault ==
    \A n \in DiscreteNumbers :
        (Str(n) \notin DOMAIN Payload.channels) <=>
            (target.channels[n].state = "DEFAULT")

\* C4 amended: a discrete channel's entry is omitted from the payload if and
\* only if override is disabled or the channel's state is DEFAULT.
C4_OmittedIffDefaultOrDisabled ==
    \A n \in DiscreteNumbers :
        (Str(n) \notin DOMAIN Payload.channels) <=>
            (~target.override_enabled \/ target.channels[n].state = "DEFAULT")

\* C4 witness: with override on, one discrete channel is out of DEFAULT and
\* has its entry while another is in DEFAULT, holds a reported number, and
\* has none.
C4_Witness ==
    /\ target.override_enabled
    /\ \E n, m \in DiscreteNumbers :
          /\ target.channels[n].state # "DEFAULT"
          /\ Str(n) \in DOMAIN Payload.channels
          /\ target.channels[m].state = "DEFAULT"
          /\ target.channels[m].value # 0
          /\ Str(m) \notin DOMAIN Payload.channels

\* C5: the number the payload carries for a discrete channel is the entry of
\* the channel's state -> value table for its current state; with override
\* on, channel 6 in STATE_2 and every other channel as constructed, the
\* payload is {id, override: true, channels: {"6": table[STATE_2]}}.
C5_DiscreteEntryIsTableValue ==
    /\ \A n \in DiscreteNumbers :
          Str(n) \in DOMAIN Payload.channels =>
              Payload.channels[Str(n)] =
                  target.channels[n].state_values[target.channels[n].state]
    /\ ( /\ target.override_enabled
         /\ target.channels[6].state = "STATE_2"
         /\ \A n \in (DOMAIN target.channels) \ {6} :
               target.channels[n] = DefaultChannels[n] )
       => Payload = [id       |-> target.id,
                     override |-> TRUE,
                     channels |-> ("6" :> target.channels[6].state_values["STATE_2"])]

\* C7 as stated: every continuous channel has min_value <= value <= max_value
\* and, when its override value is absent, value = default_value.
C7_ValueInRangeAndDefault ==
    \A n \in ContinuousNumbers :
        LET c == target.channels[n]
        IN  /\ c.min_value <= c.value
            /\ c.value <= c.max_value
            /\ (c.override_value = None => c.value = c.default_value)

\* C7 amended: a present override value lies in [min_value, max_value]; as
\* long as no telemetry has written the channel since the operator's last
\* set_override or reset_to_default, value is the override value when one is
\* present and default_value otherwise, hence in range; after set_value,
\* value is the reported number as it came, and the override value is the
\* one set_override left.
C7_RangeUntilTelemetryWrites ==
    \A n \in ContinuousNumbers :
        LET c == target.channels[n]
        IN  /\ c.override_value # None =>
                  /\ c.min_value <= c.override_value[1]
                  /\ c.override_value[1] <= c.max_value
            /\ (c.override_value # None) <=> (intent[n] # None)
            /\ reported[n] = None =>
                  /\ c.min_value <= c.value
                  /\ c.value <= c.max_value
                  /\ c.override_value = None => c.value = c.default_value
                  /\ c.override_value # None => c.value = c.override_value[1]
            /\ reported[n] # None => c.value = reported[n][1]

\* C7 witness: one channel holds a clamped override no telemetry has written
\* over, another holds a reported number outside its range with no override.
C7_Witness ==
    \E n, m \in ContinuousNumbers :
        /\ reported[n] = None
        /\ intent[n] # None
        /\ intent[n][1] > target.channels[n].max_value
        /\ target.channels[n].value = target.channels[n].max_value
        /\ reported[m] # None
        /\ target.channels[m].override_value = None
        /\ target.channels[m].value < target.channels[m].min_value

\* C8: every discrete channel's number is the entry of its state -> value
\* table for its current state.
C8_DiscreteValueIsTableValue ==
    \A n \in DiscreteNumbers :
        target.channels[n].value =
            target.channels[n].state_values[target.channels[n].state]

\* C9: a discrete channel that declares two named states is never in STATE_3.
C9_NoThirdStateOnTwoStateChannel ==
    \A n \in DiscreteNumbers :
        Len(target.channels[n].states) < 3 => target.channels[n].state # "STATE_3"

(***************************************************************************)
(* SpecChannel: one ContinuousChannel with arbitrary bounds.               *)
(***************************************************************************)
\* <<min_value, max_value, default_value>> of the channels constructed: the
\* two ranges of the default layout, the class's own defaults, a range
\* around zero, and a range of one number.
ChannelRanges ==
    { <<1000, 2000, 1500>>, <<1000, 2000, 1000>>, <<0, 1000, 500>>,
      <<-100, 100, 0>>, <<7, 7, 7>> }

\* The numbers passed to set_override and set_value: below, on, inside and
\* above the channel's range.
ChannelInputs(c) ==
    { c.min_value - 1000, c.min_value - 1, c.min_value,
      (c.min_value + c.max_value) \div 2, c.default_value,
      c.max_value, c.max_value + 1, c.max_value + 1000 }

InitChannel ==
    /\ chan \in {ContinuousChannel("Channel", 1, r[1], r[2], r[3]) : r \in ChannelRanges}
    /\ chanOp = [op |-> "init", arg |-> 0]
    /\ target = NewTarget(3)
    /\ intent = [n \in ContinuousNumbers |-> None]
    /\ reported = [n \in DOMAIN DefaultChannels |-> None]
    /\ ops = 0
    /\ stream = <<>>
    /\ wire = <<>>
    /\ buffer = <<>>
    /\ handed = <<>>
    /\ is_running = FALSE
    /\ errors = <<>>
    /\ ManagerConstructed

\* chan.set_override(v)
ChanSetOverride(v) ==
    /\ chan' = set_override(chan, v)
    /\ chanOp' = [op |-> "set_override", arg |-> v]
    /\ UNCHANGED <<targetVars, framerVars, mgrVars>>

\* chan.reset_to_default()
ChanResetToDefault ==
    /\ chan' = reset_to_default(chan)
    /\ chanOp' = [op |-> "reset_to_default", arg |-> 0]
    /\ UNCHANGED <<targetVars, framerVars, mgrVars>>

\* chan.set_value(v)
ChanSetValue(v) ==
    /\ chan' = set_value(chan, v)
    /\ chanOp' = [op |-> "set_value", arg |-> v]
    /\ UNCHANGED <<targetVars, framerVars, mgrVars>>

NextChannel ==
    \/ \E v \in ChannelInputs(chan) : ChanSetOverride(v)
    \/ ChanResetToDefault
    \/ \E v \in ChannelInputs(chan) : ChanSetValue(v)

SpecChannel == InitChannel /\ [][NextChannel]_vars

\* C6: right after set_override(v) on a channel with min_value <= max_value,
\* value lies in [min_value, max_value], override_value is value, and value
\* is v when v is in range, min_value when v is below it, max_value when v
\* is above it.
C6_SetOverrideClamps ==
    (chanOp.op = "set_override" /\ chan.min_value <= chan.max_value) =>
        LET v == chanOp.arg
        IN  /\ chan.min_value <= chan.value
            /\ chan.value <= chan.max_value
            /\ chan.override_value = Some(chan.value)
            /\ (chan.min_value <= v /\ v <= chan.max_value) => chan.value = v
            /\ v < chan.min_value => chan.value = chan.min_value
            /\ v > chan.max_value => chan.value = chan.max_value

\* C6 witness: set_override was called with a number below the range of a
\* channel whose range holds more than one number, and value is min_value.
C6_Witness ==
    /\ chanOp.op = "set_override"
    /\ chan.min_value < chan.max_value
    /\ chanOp.arg < chan.min_value
    /\ chan.value = chan.min_value
    /\ chan.override_value = Some(chan.min_value)

(***************************************************************************)
(* SpecFramer: ESPKenisisManager._read_serial over one connection.         *)
(*                                                                         *)
(* The peer's bytes are drawn from {LF, space, "{", "}"} and the two bytes *)
(* C3 A9 of the UTF-8 encoding of U+00E9.  A text over the characters      *)
(* these bytes decode to is a JSON document exactly when it is "{}" with   *)
(* optional spaces, and then it is the empty object.                       *)
(***************************************************************************)
Bytes == {"0A", "20", "7B", "7D", "C3", "A9"}

LF == "\\n"
SP == " "

\* bytes.decode(): the text of a chunk, or UnicodeDecodeError (ok = FALSE)
\* when the chunk starts with a continuation byte or ends inside a character.
RECURSIVE Decode(_)
Decode(bs) ==
    IF bs = <<>> THEN [ok |-> TRUE, text |-> <<>>]
    ELSE IF Head(bs) = "A9" THEN [ok |-> FALSE, text |-> <<>>]
    ELSE IF Head(bs) = "C3"
         THEN IF Len(bs) >= 2 /\ bs[2] = "A9"
              THEN LET rest == Decode(Tail(Tail(bs)))
                   IN  [ok |-> rest.ok, text |-> <<"U+00E9">> \o rest.text]
              ELSE [ok |-> FALSE, text |-> <<>>]
    ELSE LET rest == Decode(Tail(bs))
             ch == CASE Head(bs) = "0A" -> LF
                     [] Head(bs) = "20" -> SP
                     [] Head(bs) = "7B" -> "{"
                     [] Head(bs) = "7D" -> "}"
         IN  [ok |-> rest.ok, text |-> <<ch>> \o rest.text]

\* str.split("\n"): the pieces between the newlines, at least one.
RECURSIVE SplitFrom(_, _, _)
SplitFrom(text, piece, pieces) ==
    IF text = <<>> THEN Append(pieces, piece)
    ELSE IF Head(text) = LF
         THEN SplitFrom(Tail(text), <<>>, Append(pieces, piece))
         ELSE SplitFrom(Tail(text), Append(piece, Head(text)), pieces)

Split(text) == SplitFrom(text, <<>>, <<>>)

\* str.strip(): without its leading and trailing whitespace.
RECURSIVE LStrip(_)
LStrip(line) ==
    IF line # <<>> /\ Head(line) \in {SP, LF} THEN LStrip(Tail(line)) ELSE line

RECURSIVE RStrip(_)
RStrip(line) ==
    IF line # <<>> /\ line[Len(line)] \in {SP, LF}
    THEN RStrip(SubSeq(line, 1, Len(line) - 1))
    ELSE line

Strip(line) == RStrip(LStrip(line))

\* Whether json.loads(line) returns (the empty object) instead of raising
\* JSONDecodeError.
JsonLoads(line) == SelectSeq(line, LAMBDA ch : ch # SP) = <<"{", "}">>

\* The body of `for line in lines`, from record i on: each stripped,
\* non-empty line is passed to json.loads; a document goes to
\* _process_message, which returns at once for an object without "type";
\* anything else is reported to callback_on_error.
RECURSIVE ProcessLines(_, _, _, _)
ProcessLines(lines, i, h, e) ==
    IF i > Len(lines) THEN [handed |-> h, errors |-> e]
    ELSE LET line == Strip(lines[i])
         IN  IF line = <<>> THEN ProcessLines(lines, i + 1, h, e)
             ELSE IF JsonLoads(line)
                  THEN ProcessLines(lines, i + 1, Append(h, line), e)
                  ELSE ProcessLines(lines, i + 1, Append(h, line),
                                    Append(e, <<"Invalid JSON", line>>))

\* Mutant: the framer drops the incomplete last line instead of keeping it.
KeptRemainderDropped(lines) == <<>>

\* buffer = lines.pop()
KeptRemainder(lines) == lines[Len(lines)]

\* The byte sequences of at most n bytes.
ByteSeqs(n) == UNION {[1..k -> Bytes] : k \in 0..n}

InitFramer ==
    /\ stream \in {bs \in ByteSeqs(MaxStream) : Decode(bs).ok}
    /\ wire = stream
    /\ buffer = <<>>
    /\ handed = <<>>
    /\ is_running = TRUE
    /\ errors = <<>>
    /\ target = NewTarget(3)
    /\ intent = [n \in ContinuousNumbers |-> None]
    /\ reported = [n \in DOMAIN DefaultChannels |-> None]
    /\ ops = 0
    /\ chan = ContinuousChannel("Channel", 1, 0, 1000, 500)
    /\ chanOp = [op |-> "init", arg |-> 0]
    /\ ManagerConstructed

\* One pass of the read loop with in_waiting = n > 0: the n bytes are read
\* and decoded, the buffer is split, the complete lines are processed.  A
\* chunk that does not decode raises in the loop body: the error is
\* reported and is_running is cleared.
ReadChunk(n) ==
    /\ is_running
    /\ n \in 1..Len(wire)
    /\ wire' = SubSeq(wire, n + 1, Len(wire))
    /\ LET new_data == Decode(SubSeq(wire, 1, n))
       IN  IF new_data.ok
           THEN LET lines == Split(buffer \o new_data.text)
                    done == ProcessLines(SubSeq(lines, 1, Len(lines) - 1), 1,
                                         handed, errors)
                IN  /\ buffer' = KeptRemainder(lines)
                    /\ handed' = done.handed
                    /\ errors' = done.errors
                    /\ UNCHANGED is_running
           ELSE /\ errors' = Append(errors, <<"Error reading serial">>)
                /\ is_running' = FALSE
                /\ UNCHANGED <<buffer, handed>>
    /\ UNCHANGED <<stream, targetVars, chanVars, mgrVars>>

NextFramer == \E n \in 1..MaxStream : ReadChunk(n)

SpecFramer == InitFramer /\ [][NextFramer]_vars

\* The records of a whole text: its newline-terminated lines, stripped, the
\* blank ones left out.
RECURSIVE NonBlank(_)
NonBlank(lines) ==
    IF lines = <<>> THEN <<>>
    ELSE IF Strip(Head(lines)) = <<>> THEN NonBlank(Tail(lines))
         ELSE <<Strip(Head(lines))>> \o NonBlank(Tail(lines))

RecordsOf(text) ==
    LET pieces == Split(text) IN NonBlank(SubSeq(pieces, 1, Len(pieces) - 1))

IsPrefix(p, q) == Len(p) <= Len(q) /\ SubSeq(q, 1, Len(p)) = p

\* What the framer owes once it has stopped reading the stream `whole`.
AllRecordsHanded(whole) ==
    /\ handed = RecordsOf(whole)
    /\ buffer = Split(whole)[Len(Split(whole))]

\* C10: however the stream is cut into chunks, the records handed to the
\* decoder are, in order, records of the whole stream split on newline, and
\* once the reader has read every byte, or has stopped reading, they are
\* all of them, the text after the last newline being held in the buffer.
C10_FramerIndependentOfChunks ==
    LET whole == Decode(stream).text
    IN  /\ IsPrefix(handed, RecordsOf(whole))
        /\ (wire = <<>> \/ ~is_running) => AllRecordsHanded(whole)

\* The same for a stream of one-byte characters, where every chunk decodes.
FramerIndependentOfChunksOneByte ==
    (\A i \in 1..Len(stream) : stream[i] \notin {"C3", "A9"}) =>
        C10_FramerIndependentOfChunks

\* And for any stream as long as no read has ended inside a character.
FramerIndependentWhileDecoding ==
    is_running =>
        LET whole == Decode(stream).text
        IN  /\ IsPrefix(handed, RecordsOf(whole))
            /\ wire = <<>> => AllRecordsHanded(whole)

\* A stream of one-byte characters has been read to its end, two records
\* were handed to the decoder and text without a newline is held back.
FramerOneByteWitness ==
    /\ \A i \in 1..Len(stream) : stream[i] \notin {"C3", "A9"}
    /\ wire = <<>>
    /\ Len(handed) = 2
    /\ buffer # <<>>

(***************************************************************************)
(* SpecManager: ESPKenisisManager, its reader threads and its peer.        *)
(*                                                                         *)
(* The peer sends its text line by line, each line the text of a record   *)
(* named below followed by a newline, and a read returns any number of the *)
(* lines not yet read.  The bytes of a text, and chunks that end inside a  *)
(* line, are SpecFramer's subject.                                         *)
(***************************************************************************)
JDict(d) == [t |-> "dict", dict |-> d]
JFloat(tenths) == [t |-> "float", tenths |-> tenths]

\* The record texts the peer sends:
\*   UPD_A      {"type":"targets_update","targets":[{"id":3,"signal":80,"battery":7.4}]}
\*   UPD_B      {"type":"targets_update","targets":[{"id":4,"status":"OK",
\*                "channels":[6,12,6,6,4,7,4,4]},{"signal":1},{"id":3,"signal":60}]}
\*   UPD_C      {"type":"targets_update","targets":[{"id":4,"signal":55}]}
\*   UPD_5      {"type":"targets_update","targets":[{"id":1},{"id":2},{"id":3},{"id":4},{"id":5}]}
\*   UPD_D      {"type":"targets_update","targets":[{"id":3,"name":"rx3","rssi":-60,
\*                "last_successful_send":120,"channels":[1200,2500]}]}
\*   UPD_E      {"type":"targets_update","targets":[{"id":3,"rssi":-58,"channels":"6,12"},
\*                {"id":4,"channels":[1500,1500,1000,1500,0,1500,0,0,1800]}]}
\*   UPD_ENTRY  {"type":"targets_update","targets":[{"id":3},7]}
\*   UPD_FIELD  {"type":"targets_update","targets":5}
\*   BAD        {not json
\*   NUM        5
\*   ARR        [1,2]
\*   STR        "hello"
\*   ERR        {"type":"error","message":"low battery"}
\*   UNK        {"type":"tx_channels","channels":[1500,1500]}
\*   UNK_LIST   {"type":["tx","channels"],"channels":[1500,1500]}
\*   NOTYPE     {"targets":[{"id":9}]}
Records == {"UPD_A", "UPD_B", "UPD_C", "UPD_5", "UPD_D", "UPD_E", "UPD_ENTRY",
            "UPD_FIELD", "BAD", "NUM", "ARR", "STR", "ERR", "UNK", "UNK_LIST",
            "NOTYPE"}

IdOnly(i) == JDict("id" :> JNum(i))

\* json.loads(text) for the text of a record: the document, or (ok = FALSE)
\* JSONDecodeError.
JsonDocument(r) ==
    LET update(entries) ==
            [ok |-> TRUE,
             val |-> JDict(("type" :> JStr("targets_update")) @@
                           ("targets" :> entries))]
    IN  CASE r = "UPD_A" ->
               update(JList(<<JDict(("id" :> JNum(3)) @@ ("signal" :> JNum(80)) @@
                                    ("battery" :> JFloat(74)))>>))
          [] r = "UPD_B" ->
               update(JList(<<JDict(("id" :> JNum(4)) @@ ("status" :> JStr("OK")) @@
                                    ("channels" :> JList(<<6, 12, 6, 6, 4, 7, 4, 4>>))),
                              JDict("signal" :> JNum(1)),
                              JDict(("id" :> JNum(3)) @@ ("signal" :> JNum(60)))>>))
          [] r = "UPD_C" ->
               update(JList(<<JDict(("id" :> JNum(4)) @@ ("signal" :> JNum(55)))>>))
          [] r = "UPD_5" ->
               update(JList(<<IdOnly(1), IdOnly(2), IdOnly(3), IdOnly(4), IdOnly(5)>>))
          [] r = "UPD_D" ->
               update(JList(<<JDict(("id" :> JNum(3)) @@ ("name" :> JStr("rx3")) @@
                                    ("rssi" :> JNum(-60)) @@
                                    ("last_successful_send" :> JNum(120)) @@
                                    ("channels" :> JList(<<1200, 2500>>)))>>))
          [] r = "UPD_E" ->
               update(JList(<<JDict(("id" :> JNum(3)) @@ ("rssi" :> JNum(-58)) @@
                                    ("channels" :> JStr("6,12"))),
                              JDict(("id" :> JNum(4)) @@
                                    ("channels" :> JList(<<1500, 1500, 1000, 1500, 0,
                                                           1500, 0, 0, 1800>>)))>>))
          [] r = "UPD_ENTRY" -> update(JList(<<IdOnly(3), JNum(7)>>))
          [] r = "UPD_FIELD" -> update(JNum(5))
          [] r = "NUM" -> [ok |-> TRUE, val |-> JNum(5)]
          [] r = "ARR" -> [ok |-> TRUE, val |-> JList(<<JNum(1), JNum(2)>>)]
          [] r = "STR" -> [ok |-> TRUE, val |-> JStr("hello")]
          [] r = "ERR" ->
               [ok |-> TRUE,
                val |-> JDict(("type" :> JStr("error")) @@
                              ("message" :> JStr("low battery")))]
          [] r = "UNK" ->
               [ok |-> TRUE,
                val |-> JDict(("type" :> JStr("tx_channels")) @@
                              ("channels" :> JList(<<1500, 1500>>)))]
          [] r = "UNK_LIST" ->
               [ok |-> TRUE,
                val |-> JDict(("type" :> JList(<<JStr("tx"), JStr("channels")>>)) @@
                              ("channels" :> JList(<<1500, 1500>>)))]
          [] r = "NOTYPE" ->
               [ok |-> TRUE, val |-> JDict("targets" :> JList(<<IdOnly(9)>>))]
          [] OTHER -> [ok |-> FALSE, val |-> JStr(r)]

\* json.loads(line) for a stripped line of the reader: a line that is the
\* text of one record decodes as that record does, and two texts run
\* together are no JSON document.
JsonLoadsLine(line) ==
    IF Len(line) = 1 /\ line[1] \in Records
    THEN JsonDocument(line[1])
    ELSE [ok |-> FALSE, val |-> JStr("")]

\* Mutant: a key that an object lacks is an error (data[key] instead of
\* `key in data`).
KeyInOrKeyError(key, data) ==
    CASE data.t = "dict" ->
           [raises |-> key \notin DOMAIN data.dict, found |-> key \in DOMAIN data.dict]
      [] data.t = "list" ->
           [raises |-> FALSE,
            found  |-> \E i \in 1..Len(data.list) :
                          data.list[i].t = "str" /\ data.list[i].str = key]
      [] data.t = "str" -> [raises |-> FALSE, found |-> FALSE]
      [] OTHER -> [raises |-> TRUE, found |-> FALSE]

\* `key in data` as Python evaluates it: dict membership for an object,
\* element membership for a list, substring for a string (none of the
\* model's strings contains "type", "targets" or "id"), and TypeError
\* (raises = TRUE) for a number.
KeyIn(key, data) ==
    CASE data.t = "dict" -> [raises |-> FALSE, found |-> key \in DOMAIN data.dict]
      [] data.t = "list" ->
           [raises |-> FALSE,
            found  |-> \E i \in 1..Len(data.list) :
                          data.list[i].t = "str" /\ data.list[i].str = key]
      [] data.t = "str" -> [raises |-> FALSE, found |-> FALSE]
      [] OTHER -> [raises |-> TRUE, found |-> FALSE]

\* ESPKenisisManager._process_message up to the choice of the handler:
\* "raise" when the body raises, "ignore" when it returns at once, the
\* registered handler's message type, or "forward" for
\* callback_on_targets_update(data).  `msg_type in self.raw_data_handlers`
\* hashes msg_type, and a list or a dict is unhashable (TypeError).
RawDataHandlers == {"targets_update", "error"}

\* Mutant: a message without "type" goes the way of an unknown type.
process_message_forward_untyped(data) ==
    LET has_type == KeyIn("type", data)
    IN  IF has_type.raises THEN "raise"
        ELSE IF ~has_type.found THEN "forward"
        ELSE IF data.t # "dict" THEN "raise"
        ELSE LET msg_type == data.dict["type"]
             IN  IF msg_type.t \in {"list", "dict"} THEN "raise"
                 ELSE IF msg_type.t = "str" /\ msg_type.str \in RawDataHandlers
                 THEN msg_type.str
                 ELSE "forward"

process_message(data) ==
    LET has_type == KeyIn("type", data)
    IN  IF has_type.raises THEN "raise"
        ELSE IF ~has_type.found THEN "ignore"
        ELSE IF data.t # "dict" THEN "raise"
        ELSE LET msg_type == data.dict["type"]
             IN  IF msg_type.t \in {"list", "dict"} THEN "raise"
                 ELSE IF msg_type.t = "str" /\ msg_type.str \in RawDataHandlers
                 THEN msg_type.str
                 ELSE "forward"

\* What is left UNCHANGED by every step of SpecManager.
otherVars == <<targetVars, chanVars, stream, wire, buffer, handed, ui,
               inflight>>

\* serial.Serial(port, baudrate, timeout=1) just opened: `read` is the
\* number of lines of the peer's text returned by read so far, `written`
\* the commands written to it.
NewSerial(p) == [port |-> p, is_open |-> TRUE, read |-> 0, written |-> <<>>]

\* threading.Thread(target=self._read_serial) just started: its position
\* in _read_serial and the locals `buffer` and `lines`; inside
\* _handle_targets_update the record being handled, the index of the next
\* entry of its targets list and `updated_targets`.
NewThread ==
    [pc |-> "start", buffer |-> <<>>, lines |-> <<>>,
     batch |-> "", idx |-> 0, updated_targets |-> <<>>]

\* The text of some lines of the peer: each record with its newline.
RECURSIVE Wire(_)
Wire(records) ==
    IF records = <<>> THEN <<>>
    ELSE <<Head(records), LF>> \o Wire(Tail(records))

\* The messages the callbacks receive.
ErrorMessage(kind, detail) == [kind |-> kind, detail |-> detail, conn |-> serial_conn]
UpdateMessage(kind, record, ids) == [kind |-> kind, record |-> record, targets |-> ids]

\* The position after the body of `for line in lines` when `rest` is still
\* to do: the next line, or time.sleep(0.01) and the loop test.
AfterLine(rest) == IF rest = <<>> THEN "check" ELSE "line"

\* `except Exception as e` of the read loop (manager.py 131-133): the error
\* is reported, is_running cleared, and the loop test comes next.  The
\* locals of the abandoned pass are dead; `buffer` keeps what it holds.
RaiseInLoop(i, detail) ==
    /\ errors' = Append(errors, ErrorMessage("Error reading serial", detail))
    /\ is_running' = FALSE
    /\ threads' = [threads EXCEPT ![i] =
                      [@ EXCEPT !.pc = "check", !.lines = <<>>, !.batch = "",
                                !.idx = 0, !.updated_targets = <<>>]]

\* _read_serial, lines 102-105: a thread that finds no serial_conn returns.
ReaderStart(i) ==
    /\ threads[i].pc = "start"
    /\ threads' = [threads EXCEPT ![i].pc =
                      IF serial_conn = 0 THEN "done" ELSE "check"]
    /\ UNCHANGED <<otherVars, is_running, errors, conns, serial_conn, port,
                   is_connected, read_thread, targets, updates, merges, fg,
                   calls, returned>>

\* `while self.is_running`
ReaderCheck(i) ==
    /\ threads[i].pc = "check"
    /\ threads' = [threads EXCEPT ![i].pc = IF is_running THEN "poll" ELSE "done"]
    /\ UNCHANGED <<otherVars, is_running, errors, conns, serial_conn, port,
                   is_connected, read_thread, targets, updates, merges, fg,
                   calls, returned>>

\* Lines 108-117 when n lines are waiting: self.serial_conn is read again on
\* every pass.  None has no in_waiting (AttributeError) and a closed port
\* raises; with n = 0 the thread sleeps; otherwise the text of the n lines
\* is read, appended to the buffer and split.
ReaderPoll(i, n) ==
    /\ threads[i].pc = "poll"
    /\ IF serial_conn = 0
       THEN /\ n = 0
            /\ RaiseInLoop(i, <<"serial_conn is None">>)
            /\ UNCHANGED conns
       ELSE IF ~conns[serial_conn].is_open
       THEN /\ n = 0
            /\ RaiseInLoop(i, <<"port is closed">>)
            /\ UNCHANGED conns
       ELSE LET c == conns[serial_conn]
                new_data == Wire(SubSeq(stream, c.read + 1, c.read + n))
                lines == Split(threads[i].buffer \o new_data)
                complete == SubSeq(lines, 1, Len(lines) - 1)
            IN  /\ n \in 0..(Len(stream) - c.read)
                /\ conns' = [conns EXCEPT ![serial_conn].read = @ + n]
                /\ threads' =
                      IF n = 0 THEN [threads EXCEPT ![i].pc = "check"]
                      ELSE [threads EXCEPT ![i] =
                               [@ EXCEPT !.buffer = KeptRemainder(lines),
                                         !.lines = complete,
                                         !.pc = AfterLine(complete)]]
                /\ UNCHANGED <<is_running, errors>>
    /\ UNCHANGED <<otherVars, serial_conn, port, is_connected, read_thread,
                   targets, updates, merges, fg, calls, returned>>

\* Lines 109-112 when the device has gone (unplugged, radio reset):
\* in_waiting or read raises SerialException.
ReaderReadFails(i) ==
    /\ threads[i].pc = "poll"
    /\ serial_conn # 0
    /\ conns[serial_conn].is_open
    /\ RaiseInLoop(i, <<"read failed">>)
    /\ UNCHANGED <<otherVars, conns, serial_conn, port, is_connected,
                   read_thread, targets, updates, merges, fg, calls, returned>>

\* Mutant: json.loads is not inside a try of its own, so JSONDecodeError
\* reaches the loop's `except Exception`.
line_outcome_uncaught(line) ==
    LET doc == JsonLoadsLine(line)
    IN  IF line = <<>> THEN "skip"
        ELSE IF ~doc.ok THEN "raise"
        ELSE process_message(doc.val)

\* What the body of `for line in lines` (lines 119-128) does with a
\* stripped line: "skip" for an empty one, "invalid" when json.loads raises
\* JSONDecodeError, else what _process_message does with the document.
line_outcome(line) ==
    LET doc == JsonLoadsLine(line)
    IN  IF line = <<>> THEN "skip"
        ELSE IF ~doc.ok THEN "invalid"
        ELSE process_message(doc.val)

\* The body of `for line in lines` for the next line (lines 119-128), with
\* _process_message, _handle_error and the head of _handle_targets_update
\* (lines 151-159) when the line decodes.
ReaderLine(i) ==
    LET th   == threads[i]
        line == Strip(Head(th.lines))
        rest == Tail(th.lines)
        data == JsonLoadsLine(line).val
        outcome == line_outcome(line)
        next_line == [threads EXCEPT ![i] =
                         [@ EXCEPT !.lines = rest, !.pc = AfterLine(rest)]]
    IN  /\ th.pc = "line"
        /\ CASE outcome \in {"skip", "ignore"} ->
                  /\ threads' = next_line
                  /\ UNCHANGED <<is_running, errors, updates>>
             [] outcome = "invalid" ->
                  /\ errors' = Append(errors, ErrorMessage("Invalid JSON", line))
                  /\ threads' = next_line
                  /\ UNCHANGED <<is_running, updates>>
             [] outcome = "raise" ->
                  /\ RaiseInLoop(i, <<"exception in _process_message">>)
                  /\ UNCHANGED updates
             [] outcome = "forward" ->
                  /\ updates' = Append(updates, UpdateMessage("forward", line[1], <<>>))
                  /\ threads' = next_line
                  /\ UNCHANGED <<is_running, errors>>
             [] outcome = "error" ->
                  /\ errors' =
                        IF "message" \in DOMAIN data.dict
                        THEN Append(errors, ErrorMessage("error message",
                                              <<data.dict["message"].str>>))
                        ELSE errors
                  /\ threads' = next_line
                  /\ UNCHANGED <<is_running, updates>>
             [] outcome = "targets_update" ->
                  IF "targets" \notin DOMAIN data.dict
                  THEN /\ threads' = next_line
                       /\ UNCHANGED <<is_running, errors, updates>>
                  ELSE IF data.dict["targets"].t # "list"
                  THEN /\ RaiseInLoop(i, <<"exception in _handle_targets_update">>)
                       /\ UNCHANGED updates
                  ELSE /\ threads' = [threads EXCEPT ![i] =
                                        [@ EXCEPT !.lines = rest, !.pc = "entry",
                                                  !.batch = line[1], !.idx = 1,
                                                  !.updated_targets = <<>>]]
                       /\ UNCHANGED <<is_running, errors, updates>>
        /\ UNCHANGED <<otherVars, conns, serial_conn, port, is_connected,
                       read_thread, targets, merges, fg, calls, returned>>

\* The targets list of the batch a thread is handling.
BatchEntries(record) == JsonDocument(record).val.dict["targets"].list

\* Mutant: every entry makes a new Target for its id.
MergeEntryReplacing(registry, target_data, now) ==
    LET target_id == target_data["id"].int
    IN  DictUpdate(registry,
                   target_id :> update_from_data(NewTarget(target_id), target_data, now))

\* The registry after lines 166-177 for one entry with an id: the Target is
\* created when the id is new, then update_from_data merges the entry.
MergeEntry(registry, target_data, now) ==
    LET target_id == target_data["id"].int
        existing == IF target_id \in DOMAIN registry
                    THEN registry[target_id]
                    ELSE NewTarget(target_id)
    IN  DictUpdate(registry,
                   target_id :> update_from_data(existing, target_data, now))

\* Mutant: one callback for every target of the batch.
aggregate_notification_per_target(record, updated_targets) ==
    [k \in 1..Len(updated_targets) |->
        UpdateMessage("targets_update", record, <<updated_targets[k]>>)]

\* Lines 183-187: the callbacks made once the loop over the batch is over.
aggregate_notification(record, updated_targets) ==
    IF updated_targets # <<>>
    THEN <<UpdateMessage("targets_update", record, updated_targets)>>
    ELSE <<>>

\* One pass of `for target_data in targets_data` (lines 161-180), and after
\* the last one the aggregate callback (lines 183-187).
ReaderEntry(i) ==
    LET th == threads[i]
        entries == BatchEntries(th.batch)
        target_data == entries[th.idx]
        has_id == KeyIn("id", target_data)
    IN  /\ th.pc = "entry"
        /\ IF th.idx > Len(entries)
           THEN /\ updates' = updates \o
                              aggregate_notification(th.batch, th.updated_targets)
                /\ threads' = [threads EXCEPT ![i] =
                                  [@ EXCEPT !.pc = AfterLine(th.lines), !.batch = "",
                                            !.idx = 0, !.updated_targets = <<>>]]
                /\ UNCHANGED <<is_running, errors, targets, merges>>
           ELSE IF has_id.raises
           THEN /\ RaiseInLoop(i, <<"exception in _handle_targets_update">>)
                /\ UNCHANGED <<updates, targets, merges>>
           ELSE IF ~has_id.found
           THEN /\ threads' = [threads EXCEPT ![i].idx = @ + 1]
                /\ UNCHANGED <<is_running, errors, updates, targets, merges>>
           ELSE /\ targets' = MergeEntry(targets, target_data.dict, Len(merges) + 1)
                /\ merges' = Append(merges, [record |-> th.batch, entry |-> th.idx,
                                             id |-> target_data.dict["id"].int])
                /\ threads' = [threads EXCEPT ![i] =
                                  [@ EXCEPT !.idx = @ + 1,
                                            !.updated_targets =
                                                Append(@, target_data.dict["id"].int)]]
                /\ UNCHANGED <<is_running, errors, updates>>
        /\ UNCHANGED <<otherVars, conns, serial_conn, port, is_connected,
                       read_thread, fg, calls, returned>>

\* A command after json.dumps: the records _send_command writes.
GetInfo == [command |-> "get_info"]
SetOverrideCommand(payload) == [command |-> "set_override", data |-> payload]

\* The message _send_command reports when the write raises.
SendError(command, c) ==
    [kind |-> "Error sending command",
     detail |-> <<"write failed", command.command>>,
     conn |-> c]

\* ESPKenisisManager._send_command(command): nothing without a connection;
\* otherwise the record is written, or the write raises (the port is
\* closed, or `device_gone`) and the error is reported.
send_command(command, device_gone) ==
    IF ~is_connected \/ serial_conn = 0
    THEN UNCHANGED <<conns, errors>>
    ELSE IF conns[serial_conn].is_open /\ ~device_gone
    THEN /\ conns' = [conns EXCEPT ![serial_conn].written = Append(@, command)]
         /\ UNCHANGED errors
    ELSE /\ errors' = Append(errors, SendError(command, serial_conn))
         /\ UNCHANGED conns

\* The lines a peer sends on each connection.
Incoming ==
    { <<"UPD_A", "BAD", "UPD_C">>,
      <<"NUM", "UPD_A">>,
      <<"UPD_ENTRY", "UPD_A">>,
      <<"UPD_FIELD", "UPD_A">>,
      <<"UPD_B">>,
      <<"UPD_5">>,
      <<"ARR", "STR">>,
      <<"NOTYPE", "UNK">>,
      <<"ERR", "UPD_A">>,
      <<"UPD_D", "UPD_E">>,
      <<"UPD_D", "UPD_D">>,
      <<"UNK_LIST", "UPD_A">> }

\* The most lines one read returns: the length of the longest text.
MaxChunk == CHOOSE n \in {Len(t) : t \in Incoming} : \A t \in Incoming : Len(t) <= n

Ports == {"/dev/ttyUSB0"}

\* What serial.Serial(...) and the first write do: the port cannot be
\* opened; it opens and takes the write; it opens and the write raises.
ConnectOutcomes == {"open_fails", "opens", "opens_write_fails"}

InitManager ==
    /\ ManagerConstructed
    /\ is_running = FALSE
    /\ errors = <<>>
    /\ target = NewTarget(3)
    /\ intent = [n \in ContinuousNumbers |-> None]
    /\ reported = [n \in DOMAIN DefaultChannels |-> None]
    /\ ops = 0
    /\ chan = ContinuousChannel("Channel", 1, 0, 1000, 500)
    /\ chanOp = [op |-> "init", arg |-> 0]
    /\ stream \in Incoming
    /\ wire = <<>>
    /\ buffer = <<>>
    /\ handed = <<>>

\* The foreground thread is between two calls and may make another.
CanCall == fg = "idle" /\ calls < MaxCalls

\* Mutant: connect sets its flags before it opens the port.
ConnectFailsMarkedUp ==
    /\ errors' = Append(errors, ErrorMessage("Connection error",
                                             <<"could not open port">>))
    /\ returned' = [op |-> "connect", result |-> FALSE]
    /\ is_connected' = TRUE
    /\ is_running' = TRUE
    /\ UNCHANGED <<conns, serial_conn, port, read_thread, threads>>

\* connect, lines 63-65: serial.Serial(...) raised.
ConnectFails ==
    /\ errors' = Append(errors, ErrorMessage("Connection error",
                                             <<"could not open port">>))
    /\ returned' = [op |-> "connect", result |-> FALSE]
    /\ UNCHANGED <<conns, serial_conn, port, is_connected, is_running,
                   read_thread, threads>>

\* Mutant: connect asks for the information twice.
ConnectCommandsTwice == <<GetInfo, GetInfo>>

\* connect, line 61: the commands connect sends once the reader is started.
ConnectCommands == <<GetInfo>>

\* connect, lines 50-62: the port is open; `wrote` tells whether the write
\* of line 61 went through (_send_command reports it when it did not).
ConnectOpens(p, wrote) ==
    /\ conns' = Append(conns,
           [NewSerial(p) EXCEPT !.written = IF wrote THEN ConnectCommands ELSE <<>>])
    /\ serial_conn' = Len(conns) + 1
    /\ port' = Some(p)
    /\ is_connected' = TRUE
    /\ is_running' = TRUE
    /\ threads' = Append(threads, NewThread)
    /\ read_thread' = Len(threads) + 1
    /\ errors' = IF wrote THEN errors
                 ELSE Append(errors, SendError(GetInfo, Len(conns) + 1))
    /\ returned' = [op |-> "connect", result |-> TRUE]

\* ESPKenisisManager.connect(p), called from the UI's Connect button, which
\* is disabled from a successful connect to the next disconnect
\* (ESPKenisisUI.run).
Connect(p, outcome) ==
    /\ CanCall
    /\ ~is_connected
    /\ IF outcome = "open_fails"
       THEN ConnectFails
       ELSE ConnectOpens(p, outcome = "opens")
    /\ calls' = calls + 1
    /\ UNCHANGED <<otherVars, targets, updates, merges, fg>>

\* Mutant: disconnect marks the manager disconnected before it waits for
\* the reader, and leaves the stop signal for later.
DisconnectSignalConnectionFirst ==
    /\ CanCall
    /\ is_connected' = FALSE
    /\ fg' = "join"
    /\ UNCHANGED <<otherVars, errors, conns, serial_conn, port, is_running,
                   read_thread, threads, targets, updates, merges, calls,
                   returned>>

\* disconnect(), line 69: the stop signal; the thread then waits in
\* read_thread.join(timeout=1.0).
DisconnectSignal ==
    /\ CanCall
    /\ is_running' = FALSE
    /\ fg' = "join"
    /\ UNCHANGED <<otherVars, errors, conns, serial_conn, port, is_connected,
                   read_thread, threads, targets, updates, merges, calls,
                   returned>>

\* disconnect(), lines 73-79, once join has returned: because the reader
\* thread has ended, or because the second has passed (join does not tell,
\* and disconnect does not ask is_alive).
DisconnectRelease ==
    /\ fg = "join"
    /\ conns' = IF serial_conn # 0 /\ conns[serial_conn].is_open
                THEN [conns EXCEPT ![serial_conn].is_open = FALSE]
                ELSE conns
    /\ is_connected' = FALSE
    /\ port' = None
    /\ serial_conn' = 0
    /\ targets' = EmptyDict
    /\ fg' = "idle"
    /\ calls' = calls + 1
    /\ returned' = [op |-> "disconnect", updates |-> Len(updates)]
    /\ UNCHANGED <<otherVars, is_running, errors, read_thread, threads, updates,
                   merges>>

\* Mutant: neither send_target_override nor _send_command asks whether the
\* manager is connected; the write on None raises and is reported.
ToggleAndSendUnguarded(target_id, device_gone) ==
    /\ CanCall
    /\ target_id \in DOMAIN targets
    /\ LET toggled == [targets[target_id] EXCEPT !.override_enabled = ~@]
           command == SetOverrideCommand(get_override_payload(toggled))
       IN  /\ targets' = [targets EXCEPT ![target_id] = toggled]
           /\ IF serial_conn # 0 /\ conns[serial_conn].is_open /\ ~device_gone
              THEN /\ conns' = [conns EXCEPT ![serial_conn].written =
                                                Append(@, command)]
                   /\ UNCHANGED errors
              ELSE /\ errors' = Append(errors, SendError(command, serial_conn))
                   /\ UNCHANGED conns
    /\ calls' = calls + 1
    /\ returned' = [op |-> "send_target_override", target_id |-> target_id]
    /\ UNCHANGED <<otherVars, is_running, serial_conn, port, is_connected,
                   read_thread, threads, updates, merges, fg>>

\* The override button of a target's frame (ESPKenisisUI.run): the target
\* is fetched with get_target, its override_enabled is toggled, and
\* send_target_override(target) sends its payload when connected.
ToggleAndSend(target_id, device_gone) ==
    /\ CanCall
    /\ target_id \in DOMAIN targets
    /\ LET toggled == [targets[target_id] EXCEPT !.override_enabled = ~@]
       IN  /\ targets' = [targets EXCEPT ![target_id] = toggled]
           /\ IF ~is_connected
              THEN UNCHANGED <<conns, errors>>
              ELSE send_command(SetOverrideCommand(get_override_payload(toggled)),
                                device_gone)
    /\ calls' = calls + 1
    /\ returned' = [op |-> "send_target_override", target_id |-> target_id]
    /\ UNCHANGED <<otherVars, is_running, serial_conn, port, is_connected,
                   read_thread, threads, updates, merges, fg>>

\* Mutant: get_target_ids returns the ids in descending order.
SortedDescending(ids) ==
    LET RECURSIVE down(_)
        down(rest) ==
            IF rest = {} THEN <<>>
            ELSE LET most == CHOOSE i \in rest : \A j \in rest : j <= i
                 IN  <<most>> \o down(rest \ {most})
    IN  down(ids)

\* sorted(ids), as a list.
RECURSIVE Sorted(_)
Sorted(ids) ==
    IF ids = {} THEN <<>>
    ELSE LET least == CHOOSE i \in ids : \A j \in ids : i <= j
         IN  <<least>> \o Sorted(ids \ {least})

\* Whether a reader thread has merged some, and not yet all, of the entries
\* with an id of the batch it is handling.
BatchInProgress(th) ==
    /\ th.pc = "entry"
    /\ th.updated_targets # <<>>
    /\ \E j \in th.idx..Len(BatchEntries(th.batch)) :
          LET has_id == KeyIn("id", BatchEntries(th.batch)[j])
          IN  ~has_id.raises /\ has_id.found

\* ESPKenisisManager.get_target_ids(), called by the foreground; `torn`
\* records whether a reader was inside a batch at that moment.
GetTargetIds ==
    /\ CanCall
    /\ calls' = calls + 1
    /\ returned' =
           [op |-> "get_target_ids",
            result |-> Sorted(DOMAIN targets),
            torn |-> \E i \in 1..Len(threads) : BatchInProgress(threads[i])]
    /\ UNCHANGED <<otherVars, is_running, errors, conns, serial_conn, port,
                   is_connected, read_thread, threads, targets, updates, merges,
                   fg>>

NextManager ==
    \/ \E p \in Ports, outcome \in ConnectOutcomes : Connect(p, outcome)
    \/ DisconnectSignal
    \/ DisconnectRelease
    \/ \E target_id \in DOMAIN targets, device_gone \in BOOLEAN :
          ToggleAndSend(target_id, device_gone)
    \/ GetTargetIds
    \/ \E i \in 1..Len(threads) :
          \/ ReaderStart(i)
          \/ ReaderCheck(i)
          \/ \E n \in 0..MaxChunk : ReaderPoll(i, n)
          \/ ReaderReadFails(i)
          \/ ReaderLine(i)
          \/ ReaderEntry(i)

SpecManager == InitManager /\ [][NextManager]_vars

(***************************************************************************)
(* Claims checked under SpecManager.                                       *)
(***************************************************************************)
\* The number of messages of a callback's log that satisfy Test.
Count(log, Test(_)) == Cardinality({k \in 1..Len(log) : Test(log[k])})

IsInvalidJson(e) == e.kind = "Invalid JSON"
IsReadFailure(e) == e.kind = "Error reading serial" /\ e.detail = <<"read failed">>
IsReleasedHandle(e) ==
    /\ e.kind = "Error reading serial"
    /\ e.detail \in {<<"serial_conn is None">>, <<"port is closed">>}

\* The first connection is still the current one, the foreground is not
\* inside disconnect, and the device has not failed a read.
FirstConnectionUp ==
    /\ Len(conns) = 1
    /\ is_connected
    /\ fg = "idle"
    /\ Count(errors, IsReadFailure) = 0

\* The one reader of the first connection has read every line the peer
\* sent and is not inside the processing of any.
ReaderIsThrough ==
    /\ conns[1].read = Len(stream)
    /\ threads[1].pc \in {"check", "poll", "done"}
    /\ threads[1].lines = <<>>

MalformedBetweenValid == <<"UPD_A", "BAD", "UPD_C">>

\* C11: when the peer sends a targets_update for target 3, then text that is
\* no JSON, then a targets_update for target 4, and the connection stays up,
\* then once the reader is through, however the lines were cut into
\* chunks: the error callback was invoked exactly once with Invalid JSON,
\* for the text in the middle; the reader is still running; and both
\* batches were merged and notified, the first before the second.
C11_MalformedLineBetweenValidOnes ==
    (stream = MalformedBetweenValid /\ FirstConnectionUp /\ ReaderIsThrough) =>
        /\ is_running
        /\ threads[1].pc # "done"
        /\ Count(errors, IsInvalidJson) = 1
        /\ \E k \in 1..Len(errors) :
              IsInvalidJson(errors[k]) /\ errors[k].detail = <<"BAD">>
        /\ merges = << [record |-> "UPD_A", entry |-> 1, id |-> 3],
                       [record |-> "UPD_C", entry |-> 1, id |-> 4] >>
        /\ updates = << UpdateMessage("targets_update", "UPD_A", <<3>>),
                        UpdateMessage("targets_update", "UPD_C", <<4>>) >>
        /\ DOMAIN targets = {3, 4}
        /\ targets[3].custom_data["signal"] = JNum(80)
        /\ targets[3].last_update_time = 1
        /\ targets[4].custom_data["signal"] = JNum(55)
        /\ targets[4].last_update_time = 2

\* C11 witness: the three lines were read in one chunk and the reader is
\* through with them, the one error being that of the middle line.
C11_Witness ==
    /\ stream = MalformedBetweenValid
    /\ FirstConnectionUp
    /\ ReaderIsThrough
    /\ threads[1].buffer = <<>>
    /\ Len(errors) = 1
    /\ DOMAIN targets = {3, 4}

\* C12: while the connection stays up, no record the peer sends stops the
\* reader: whatever complete lines have been received, is_running is still
\* true and the reader has not left its loop.
C12_NoRecordHaltsTheReader ==
    (FirstConnectionUp /\ threads[1].pc # "start") =>
        /\ is_running
        /\ threads[1].pc # "done"

\* C13: the reader never uses a transport handle that disconnect has
\* released: no pass of the read loop finds serial_conn None or closed
\* (which the loop reports as an error of reading).
C13_ReaderNeverUsesReleasedHandle ==
    Count(errors, IsReleasedHandle) = 0

\* C14: from the return of disconnect() until the foreground's next call,
\* the registry is empty and no state-update callback is invoked.
C14_RegistryStaysClearedAfterDisconnect ==
    (returned.op = "disconnect" /\ fg = "idle") =>
        /\ targets = EmptyDict
        /\ Len(updates) = returned.updates

\* C15: no call of get_target_ids is made while a reader has applied some
\* and not yet all of the entries of a batch.
C15_NoReadInsideABatch ==
    returned.op = "get_target_ids" => ~returned.torn

\* C16: once a failed read or a failed write on the current connection has
\* been reported to the error callback, is_connected is false.
C16_TransportFailureMarksConnectionDown ==
    \A k \in 1..Len(errors) :
        (/\ errors[k].conn = serial_conn
         /\ serial_conn # 0
         /\ \/ IsReadFailure(errors[k])
            \/ errors[k].kind = "Error sending command")
        => ~is_connected

IsConnectionError(e) == e.kind = "Connection error"

\* C17: a connect whose open fails returns False, gives the error callback
\* one message more, a connection error, and changes nothing else:
\* is_connected and is_running are false as before, no reader thread is
\* started, no transport is opened or written to, and serial_conn, port and
\* the registry are as they were.
C17_FailedOpenLeavesDisconnected ==
    [][ (/\ calls' = calls + 1
         /\ returned'.op = "connect"
         /\ returned'.result = FALSE)
        => /\ Len(errors') = Len(errors) + 1
           /\ SubSeq(errors', 1, Len(errors)) = errors
           /\ IsConnectionError(errors'[Len(errors')])
           /\ ~is_connected /\ ~is_connected'
           /\ ~is_running /\ ~is_running'
           /\ threads' = threads
           /\ read_thread' = read_thread
           /\ conns' = conns
           /\ serial_conn' = serial_conn
           /\ port' = port
           /\ targets' = targets ]_vars

\* C17 witness: one connect failed to open the port, and a later connect
\* succeeded: the manager is connected and get_info is written.
C17_Witness ==
    /\ Count(errors, IsConnectionError) = 1
    /\ returned = [op |-> "connect", result |-> TRUE]
    /\ is_connected
    /\ is_running
    /\ Len(conns) = 1
    /\ conns[1].written = <<GetInfo>>

GetInfoCount(w) == Count(w, LAMBDA c : c.command = "get_info")

RECURSIVE IdsOf(_)
IdsOf(entries) ==
    IF entries = <<>> THEN <<>>
    ELSE LET has_id == KeyIn("id", Head(entries))
         IN  (IF ~has_id.raises /\ has_id.found
              THEN <<Head(entries).dict["id"].int>> ELSE <<>>)
             \o IdsOf(Tail(entries))

\* C19: while a reader thread is inside a batch, none of its steps invokes
\* the state-update callback, but the step that ends the batch: when the
\* batch has an entry with an id, that step invokes it exactly once, with
\* the ids of all the entries that carry one, in order, every one of them
\* merged before.
C19_OneAggregateCallbackPerBatch ==
    [][ \A i \in 1..Len(threads) :
          (threads[i].pc = "entry" /\ threads'[i] # threads[i]) =>
             LET record == threads[i].batch
                 entries == BatchEntries(record)
                 ids == IdsOf(entries)
             IN  IF threads[i].idx <= Len(entries)
                 THEN updates' = updates
                 ELSE ids # <<>> =>
                        /\ updates' = Append(updates,
                               UpdateMessage("targets_update", record, ids))
                        /\ \A k \in 1..Len(ids) :
                              \E m \in 1..Len(merges) :
                                 merges[m].record = record /\ merges[m].id = ids[k]
      ]_vars

\* C19 witness: the batch of five entries has been processed: the
\* state-update callback was invoked once, with the five ids.
C19_Witness ==
    /\ updates = <<UpdateMessage("targets_update", "UPD_5", <<1, 2, 3, 4, 5>>)>>
    /\ DOMAIN targets = 1..5
    /\ Len(merges) = 5

\* C20: when the first entry merged on the first connection is
\* {"id": 3, "signal": 80, "battery": 7.4} and the operator has not touched
\* the target, the registry holds target 3 with signal_strength 80,
\* battery_voltage 7.4, status "Unknown", override disabled and every
\* channel of the default layout at its default.
C20_MergeSetsNamedAttributes ==
    (/\ Len(conns) = 1
     /\ is_connected
     /\ returned.op = "connect"
     /\ merges = <<[record |-> "UPD_A", entry |-> 1, id |-> 3]>>)
    => /\ DOMAIN targets = {3}
       /\ targets[3].signal_strength = 80
       /\ targets[3].battery_voltage = JFloat(74)
       /\ targets[3].status = "Unknown"
       /\ ~targets[3].override_enabled
       /\ targets[3].channels = DefaultChannels

\* The entry of the batch merged last, as json.loads returned it.
LastMerged == merges[Len(merges)]
EntryOf(m) == BatchEntries(m.record)[m.entry].dict

\* The keys of an entry the specification names; every other key is custom.
NamedKeys == {"id", "signal", "battery", "status", "channels"}

\* C21: after an entry is merged, and until the target is merged again or
\* the registry is cleared, the target's custom_data holds every key of the
\* entry other than id, signal, battery, status and channels, with the value
\* the entry gave it.
C21_OtherKeysStoredInCustomData ==
    (merges # <<>> /\ LastMerged.id \in DOMAIN targets) =>
        \A k \in (DOMAIN EntryOf(LastMerged)) \ NamedKeys :
            /\ k \in DOMAIN targets[LastMerged.id].custom_data
            /\ targets[LastMerged.id].custom_data[k] = EntryOf(LastMerged)[k]

\* The same for the keys last_successful_send is not one of.
OtherKeysButLastSendStored ==
    (merges # <<>> /\ LastMerged.id \in DOMAIN targets) =>
        \A k \in (DOMAIN EntryOf(LastMerged)) \ (NamedKeys \cup {"last_successful_send"}) :
            /\ k \in DOMAIN targets[LastMerged.id].custom_data
            /\ targets[LastMerged.id].custom_data[k] = EntryOf(LastMerged)[k]

\* An rssi of -60 was stored, and replaced by the -58 of a later entry.
CustomValueReplaced ==
    /\ Len(merges) >= 2
    /\ merges[1] = [record |-> "UPD_D", entry |-> 1, id |-> 3]
    /\ LastMerged = [record |-> "UPD_E", entry |-> 1, id |-> 3]
    /\ 3 \in DOMAIN targets
    /\ targets[3].custom_data["rssi"] = JNum(-58)
    /\ targets[3].custom_data["name"] = JStr("rx3")

\* C22: the step that merges an entry leaves the target with the channel
\* numbers it had (those of the default layout for a new target); when the
\* entry's channels field is a list, channel n takes element n - 1 (0-based)
\* as its value for every n the list covers and is otherwise as it was,
\* elements beyond the last channel are dropped, and no error is raised or
\* reported; when channels is absent or no list, every channel is as it was.
C22_ChannelsAppliedPositionally ==
    [][ (merges' # merges) =>
          LET m == merges'[Len(merges')]
              entry == EntryOf(m)
              before == IF m.id \in DOMAIN targets
                        THEN targets[m.id].channels
                        ELSE DefaultChannels
              after == targets'[m.id].channels
              is_list == "channels" \in DOMAIN entry /\ entry["channels"].t = "list"
          IN  /\ DOMAIN after = DOMAIN before
              /\ \A n \in DOMAIN after :
                    IF is_list /\ n <= Len(entry["channels"].list)
                    THEN after[n] =
                            [before[n] EXCEPT !.value = entry["channels"].list[n]]
                    ELSE after[n] = before[n]
              /\ errors' = errors
              /\ is_running' = is_running
      ]_vars

\* C22 witness: target 3 took a list of two elements and then a channels
\* field that is a string, target 4 a list of nine: channels 1 and 2 of
\* target 3 hold the two numbers and its channel 3 its default, and target 4
\* has its eight channels, the sixth holding the sixth number.
C22_Witness ==
    /\ merges = << [record |-> "UPD_D", entry |-> 1, id |-> 3],
                   [record |-> "UPD_E", entry |-> 1, id |-> 3],
                   [record |-> "UPD_E", entry |-> 2, id |-> 4] >>
    /\ DOMAIN targets = {3, 4}
    /\ targets[3].channels[1].value = 1200
    /\ targets[3].channels[2].value = 2500
    /\ targets[3].channels[3] = DefaultChannels[3]
    /\ DOMAIN targets[4].channels = 1..8
    /\ targets[4].channels[6].value = 1500
    /\ targets[4].channels[8].value = 0
    /\ errors = <<>>

\* A targets_update batch applied to a registry in one go: the entries with
\* an id merged one after another, the clock advancing with each.
RECURSIVE ApplyEntries(_, _, _)
ApplyEntries(registry, entries, now) ==
    IF entries = <<>> THEN registry
    ELSE LET has_id == KeyIn("id", Head(entries))
         IN  IF ~has_id.raises /\ has_id.found
             THEN ApplyEntries(MergeEntry(registry, Head(entries).dict, now),
                               Tail(entries), now + 1)
             ELSE ApplyEntries(registry, Tail(entries), now)

ApplyBatch(registry, record, now) ==
    ApplyEntries(registry, BatchEntries(record), now)

\* A registry without its clock readings.
Untimed(registry) ==
    [id \in DOMAIN registry |-> [registry[id] EXCEPT !.last_update_time = 0]]

\* The batches whose every entry is an object.
WellFormedBatches == {"UPD_A", "UPD_B", "UPD_C", "UPD_5", "UPD_D", "UPD_E"}

RepeatedBatch == <<"UPD_D", "UPD_D">>

\* The reader of the first connection is between two lines, the foreground
\* having called nothing since connect.
BetweenLinesUntouched ==
    /\ Len(conns) = 1
    /\ returned = [op |-> "connect", result |-> TRUE]
    /\ fg = "idle"
    /\ threads[1].pc # "entry"

\* The batches of the peer's text whose every entry is an object.
BatchesSent == {stream[p] : p \in 1..Len(stream)} \cap WellFormedBatches

\* Every reader thread is at its loop test or has ended.
ReadersAtRest == \A i \in 1..Len(threads) : threads[i].pc \in {"check", "done"}

\* C23: from any registry the manager holds while its readers are at rest,
\* applying a batch the peer sends twice in a row gives the registry that
\* applying it once gives, clock readings aside; and when the peer sends
\* the same batch twice, the registry after the second is the registry
\* after the first.
C23_BatchAppliedTwiceIsAppliedOnce ==
    /\ ReadersAtRest =>
          \A record \in BatchesSent :
              Untimed(ApplyBatch(ApplyBatch(targets, record, 1), record, 2))
                  = Untimed(ApplyBatch(targets, record, 1))
    /\ (stream = RepeatedBatch /\ BetweenLinesUntouched /\ merges # <<>>) =>
          Untimed(targets) = Untimed(ApplyBatch(EmptyDict, "UPD_D", 1))

\* C23 witness: the reader has applied the batch a second time; target 3
\* carries the time of the second merge and what the first merge gave it.
C23_Witness ==
    /\ stream = RepeatedBatch
    /\ BetweenLinesUntouched
    /\ Len(merges) = 2
    /\ Len(updates) = 2
    /\ targets[3].last_update_time = 2
    /\ targets[3].channels[2].value = 2500
    /\ targets[3].custom_data["rssi"] = JNum(-60)

\* The step with which disconnect() releases the connection and returns.
DisconnectReturns == fg = "join" /\ fg' = "idle"

LayoutOf(c) ==
    IF IsContinuous(c)
    THEN <<c.channel_type, c.name, c.channel_number,
           c.min_value, c.max_value, c.default_value>>
    ELSE <<c.channel_type, c.name, c.channel_number, c.states, c.state_values>>

HasDefaultLayout(channels) ==
    /\ DOMAIN channels = 1..8
    /\ \A n \in 1..4 : IsContinuous(channels[n])
    /\ \A n \in 5..8 : IsDiscrete(channels[n])
    /\ \A n \in 1..8 : LayoutOf(channels[n]) = LayoutOf(DefaultChannels[n])


PlaceOf(record) == CHOOSE p \in 1..Len(stream) :
                      /\ stream[p] = record
                      /\ \A q \in 1..(p - 1) : stream[q] # record

\* The lines of exactly one connection, the c-th, have been read.
OnlyConnectionRead(c) ==
    /\ c \in 1..Len(conns)
    /\ \A d \in 1..Len(conns) : d # c => conns[d].read = 0

\* C26: when all the records merged so far were read on one connection,
\* they were merged in the order the peer sent them: of two merges, the
\* later is not of a record sent earlier.
C26_RecordsProcessedInWireOrder ==
    \A c \in 1..Len(conns) :
        OnlyConnectionRead(c) =>
            \A a, b \in 1..Len(merges) :
                a < b => PlaceOf(merges[a].record) <= PlaceOf(merges[b].record)

\* On the first connection, as long as no later one was opened, the records
\* are merged in wire order.
WireOrderOnFirstConnection ==
    Len(conns) = 1 =>
        \A a, b \in 1..Len(merges) :
            a < b => PlaceOf(merges[a].record) <= PlaceOf(merges[b].record)

\* The document of the line a reader thread is about to decode, for a line
\* that is the text of one record.
NextDocument(th) == JsonLoadsLine(Strip(Head(th.lines)))

\* A reader thread is about to decode a line that is a JSON object with a
\* type field.
AboutToDecodeTyped(th) ==
    /\ th.pc = "line"
    /\ NextDocument(th).ok
    /\ NextDocument(th).val.t = "dict"
    /\ "type" \in DOMAIN NextDocument(th).val.dict

IsHandledType(msg_type) ==
    msg_type.t = "str" /\ msg_type.str \in {"targets_update", "error"}

\* The state-update callback was invoked once more, with the document
\* decoded from the text `record`; the error callback was not invoked and
\* the registry is as it was.
ForwardedOnce(record) ==
    /\ updates' = Append(updates, UpdateMessage("forward", record, <<>>))
    /\ errors' = errors
    /\ targets' = targets

\* C27: the step in which a reader handles a decoded object whose type is
\* neither targets_update nor error passes the object to the state-update
\* callback once, does not invoke the error callback and leaves the
\* registry unchanged.
C27_UnknownTypeForwardedOnce ==
    [][ \A i \in 1..Len(threads) :
          (/\ AboutToDecodeTyped(threads[i])
           /\ ~IsHandledType(NextDocument(threads[i]).val.dict["type"])
           /\ threads'[i] # threads[i])
          => ForwardedOnce(Head(threads[i].lines)[1])
      ]_vars

\* The same for a type that is a string.
UnknownStringTypeForwardedOnce ==
    [][ \A i \in 1..Len(threads) :
          (/\ AboutToDecodeTyped(threads[i])
           /\ ~IsHandledType(NextDocument(threads[i]).val.dict["type"])
           /\ NextDocument(threads[i]).val.dict["type"].t = "str"
           /\ threads'[i] # threads[i])
          => ForwardedOnce(Head(threads[i].lines)[1])
      ]_vars

\* A reader thread is about to decode a line that is a JSON object without
\* a type field.
AboutToDecodeUntyped(th) ==
    /\ th.pc = "line"
    /\ NextDocument(th).ok
    /\ NextDocument(th).val.t = "dict"
    /\ "type" \notin DOMAIN NextDocument(th).val.dict

\* C28: the step in which a reader handles a decoded object without a type
\* field invokes neither callback and changes nothing but the reader's
\* place in its lines: registry, merges, connection flags, transports and
\* the framer buffer are as they were.
C28_UntypedObjectIgnored ==
    [][ \A i \in 1..Len(threads) :
          (AboutToDecodeUntyped(threads[i]) /\ threads'[i] # threads[i]) =>
             /\ updates' = updates
             /\ errors' = errors
             /\ targets' = targets
             /\ merges' = merges
             /\ is_connected' = is_connected
             /\ is_running' = is_running
             /\ conns' = conns
             /\ serial_conn' = serial_conn
             /\ threads'[i].buffer = threads[i].buffer
             /\ threads'[i].lines = Tail(threads[i].lines)
             /\ threads'[i].pc \in {"line", "check"}
      ]_vars

\* C28 witness: the peer sent an object without type and then one of an
\* unknown type; the second was forwarded, and that is all that happened.
C28_Witness ==
    /\ stream = <<"NOTYPE", "UNK">>
    /\ Len(conns) = 1
    /\ conns[1].read = 2
    /\ updates = <<UpdateMessage("forward", "UNK", <<>>)>>
    /\ errors = <<>>
    /\ targets = EmptyDict
    /\ is_running

\* The entry a reader thread inside a batch is at: an object without an id.
AtEntryWithoutId(th) ==
    /\ th.pc = "entry"
    /\ th.idx <= Len(BatchEntries(th.batch))
    /\ BatchEntries(th.batch)[th.idx].t = "dict"
    /\ "id" \notin DOMAIN BatchEntries(th.batch)[th.idx].dict

\* The batch has an entry that is an object without an id.
HasEntryWithoutId(record) ==
    \E j \in 1..Len(BatchEntries(record)) :
        /\ BatchEntries(record)[j].t = "dict"
        /\ "id" \notin DOMAIN BatchEntries(record)[j].dict

\* C29: the step of a reader at an entry without an id invokes no callback
\* and leaves registry and merges as they are: the reader moves to the next
\* entry of the batch.  And the step that ends a batch with such an entry
\* invokes the state-update callback with the ids of all the entries that
\* carry one, those before and those after it, each of them merged.
C29_EntryWithoutIdSkipped ==
    [][ \A i \in 1..Len(threads) :
          LET th == threads[i]
              entries == BatchEntries(th.batch)
          IN  /\ (AtEntryWithoutId(th) /\ threads'[i] # th) =>
                    /\ errors' = errors
                    /\ updates' = updates
                    /\ targets' = targets
                    /\ merges' = merges
                    /\ is_running' = is_running
                    /\ threads'[i] = [th EXCEPT !.idx = th.idx + 1]
              /\ (/\ th.pc = "entry"
                  /\ HasEntryWithoutId(th.batch)
                  /\ th.idx > Len(entries)
                  /\ threads'[i] # th) =>
                    /\ th.updated_targets = IdsOf(entries)
                    /\ updates' = Append(updates,
                           UpdateMessage("targets_update", th.batch, IdsOf(entries)))
                    /\ \A k \in 1..Len(entries) :
                          "id" \in DOMAIN entries[k].dict =>
                             \E m \in 1..Len(merges) :
                                merges[m] = [record |-> th.batch, entry |-> k,
                                             id |-> entries[k].dict["id"].int]
      ]_vars

\* C29 witness: the batch with an entry for target 4, an entry without id
\* and an entry for target 3 has been handled: two merges, one callback
\* naming 4 and 3, no error.
C29_Witness ==
    /\ merges = << [record |-> "UPD_B", entry |-> 1, id |-> 4],
                   [record |-> "UPD_B", entry |-> 3, id |-> 3] >>
    /\ updates = <<UpdateMessage("targets_update", "UPD_B", <<4, 3>>)>>
    /\ DOMAIN targets = {3, 4}
    /\ errors = <<>>

(***************************************************************************)
(* SpecReconnect: connect, disconnect and connect again, with reads that   *)
(* end inside a line.                                                      *)
(*                                                                         *)
(* Here `stream` holds one text for each connection, in the order the      *)
(* connections are opened (the last one for every later connection), so    *)
(* that text of one connection can be told from text of another.  A read   *)
(* returns any number of the pieces not yet read, a piece being the text   *)
(* of a record or the newline after it, and `read` of a transport counts   *)
(* pieces.                                                                 *)
(***************************************************************************)
\* The texts the peer sends on the first and on the second connection.
Reconnections ==
    { << <<"UPD_A">>, <<"UPD_C">> >>,
      << <<"UPD_A", "ERR">>, <<"UPD_C">> >> }

\* The pieces the peer sends on the c-th connection.
TextOn(c) == Wire(stream[Min(c, Len(stream))])

\* The most pieces one read returns: the length of the longest text.
MaxPieces ==
    LET lengths == {Len(Wire(s[c])) : s \in Reconnections, c \in 1..2}
    IN  CHOOSE n \in lengths : \A m \in lengths : m <= n

InitReconnect ==
    /\ ManagerConstructed
    /\ is_running = FALSE
    /\ errors = <<>>
    /\ target = NewTarget(3)
    /\ intent = [n \in ContinuousNumbers |-> None]
    /\ reported = [n \in DOMAIN DefaultChannels |-> None]
    /\ ops = 0
    /\ chan = ContinuousChannel("Channel", 1, 0, 1000, 500)
    /\ chanOp = [op |-> "init", arg |-> 0]
    /\ stream \in Reconnections
    /\ wire = <<>>
    /\ buffer = <<>>
    /\ handed = <<>>

\* Lines 108-117 when n pieces are waiting: as ReaderPoll, the read ending
\* wherever the n pieces end.
ReaderPollText(i, n) ==
    /\ threads[i].pc = "poll"
    /\ IF serial_conn = 0
       THEN /\ n = 0
            /\ RaiseInLoop(i, <<"serial_conn is None">>)
            /\ UNCHANGED conns
       ELSE IF ~conns[serial_conn].is_open
       THEN /\ n = 0
            /\ RaiseInLoop(i, <<"port is closed">>)
            /\ UNCHANGED conns
       ELSE LET c == conns[serial_conn]
                new_data == SubSeq(TextOn(serial_conn), c.read + 1, c.read + n)
                lines == Split(threads[i].buffer \o new_data)
                complete == SubSeq(lines, 1, Len(lines) - 1)
            IN  /\ n \in 0..(Len(TextOn(serial_conn)) - c.read)
                /\ conns' = [conns EXCEPT ![serial_conn].read = @ + n]
                /\ threads' =
                      IF n = 0 THEN [threads EXCEPT ![i].pc = "check"]
                      ELSE [threads EXCEPT ![i] =
                               [@ EXCEPT !.buffer = KeptRemainder(lines),
                                         !.lines = complete,
                                         !.pc = AfterLine(complete)]]
                /\ UNCHANGED <<is_running, errors>>
    /\ UNCHANGED <<otherVars, serial_conn, port, is_connected, read_thread,
                   targets, updates, merges, fg, calls, returned>>

NextReconnect ==
    \/ \E p \in Ports, outcome \in ConnectOutcomes : Connect(p, outcome)
    \/ DisconnectSignal
    \/ DisconnectRelease
    \/ \E i \in 1..Len(threads) :
          \/ ReaderStart(i)
          \/ ReaderCheck(i)
          \/ \E n \in 0..MaxPieces : ReaderPollText(i, n)
          \/ ReaderLine(i)
          \/ ReaderEntry(i)

SpecReconnect == InitReconnect /\ [][NextReconnect]_vars

\* The pieces of a reader's complete lines and of its buffer.
PiecesHeld(th) ==
    {th.buffer[k] : k \in 1..Len(th.buffer)} \cup
    UNION {{th.lines[j][k] : k \in 1..Len(th.lines[j])} : j \in 1..Len(th.lines)}

\* The pieces of the records the peer sends on the c-th connection.
PiecesOn(c) == {TextOn(c)[k] : k \in 1..Len(TextOn(c))}

\* C30: what a reader holds after a read, the lines it is going to decode
\* and the text it keeps for the next read, is text the peer sent on the
\* connection that was read: no text received before a disconnect is part
\* of a line split after a later connect.
C30_NoTextSurvivesDisconnect ==
    [][ \A i \in 1..Len(threads) :
          (/\ threads[i].pc = "poll"
           /\ serial_conn # 0
           /\ conns' # conns
           /\ threads'[i] # threads[i])
          => PiecesHeld(threads'[i]) \subseteq PiecesOn(serial_conn)
      ]_vars

\* As long as no second connection is opened, a reader holds only text of
\* its connection, and a reader just started holds none.
ReaderHoldsOwnTextOnFirstConnection ==
    /\ Len(conns) = 1 => PiecesHeld(threads[1]) \subseteq PiecesOn(1)
    /\ \A i \in 1..Len(threads) :
          threads[i].pc = "start" => threads[i].buffer = <<>>


\* The record whose text was received on the first connection without its
\* newline is never merged.
StaleTextNeverMerged ==
    (Len(conns) >= 1 /\ conns[1].read = 1) =>
        \A m \in 1..Len(merges) : merges[m].record # stream[1][1]

(***************************************************************************)
(* SpecReconnectFair: SpecReconnect under fair scheduling.                 *)
(*                                                                         *)
(* Every reader is a thread of its own (threading.Thread, manager.py       *)
(* 57-58): the operating system gives it the processor again and again,    *)
(* the callbacks return, and time.sleep(0.01) ends, so a reader that can   *)
(* take a step of _read_serial eventually takes one.  join(timeout=1.0)    *)
(* returns after a second at the latest, so a disconnect that has given    *)
(* its stop signal eventually goes on to lines 73-79.  Nothing obliges the *)
(* operator to press Connect or Disconnect.                                *)
(***************************************************************************)
\* One step of _read_serial by the i-th reader thread.
ReaderSteps(i) ==
    /\ i <= Len(threads)
    /\ \/ ReaderStart(i)
       \/ ReaderCheck(i)
       \/ \E n \in 0..MaxPieces : ReaderPollText(i, n)
       \/ ReaderLine(i)
       \/ ReaderEntry(i)

SpecReconnectFair ==
    /\ SpecReconnect
    /\ \A i \in 1..MaxCalls : WF_vars(ReaderSteps(i))
    /\ WF_vars(DisconnectRelease)

\* Whether the i-th reader thread has been started and is still inside
\* _read_serial.
ReaderAlive(i) == i <= Len(threads) /\ threads[i].pc # "done"

\* Whether the i-th reader thread has returned from _read_serial.
ReaderEnded(i) == i <= Len(threads) /\ threads[i].pc = "done"

\* C31: a reader thread that is running when disconnect() gives the stop
\* signal eventually leaves its loop and ends, whatever the foreground does
\* afterwards.
C31_ReaderEndsAfterDisconnect ==
    \A i \in 1..MaxCalls :
        (fg = "join" /\ ReaderAlive(i)) ~> ReaderEnded(i)

\* As long as no connect follows the disconnect, the reader does end: it
\* ends, or a connection is opened that was not there at the signal.
ReaderEndsUnlessConnectFollows ==
    \A i \in 1..MaxCalls : \A n \in 0..MaxCalls :
        (fg = "join" /\ ReaderAlive(i) /\ Len(conns) = n)
            ~> (ReaderEnded(i) \/ Len(conns) > n)

(***************************************************************************)
(* SpecReopen: the manager as a class, called in any order.                *)
(*                                                                         *)
(* The UI disables its Connect button while a connection is up; the class  *)
(* does not refuse a second connect.  Here connect may also be called on a *)
(* connected manager.  The reads are those of SpecReconnect.               *)
(***************************************************************************)
\* connect(p) on a connected manager.  Line 51 rebinds self.serial_conn:
\* the manager no longer refers to the Serial object it opened before, and
\* nothing in connect closes it.  `finalized` tells whether the interpreter
\* reclaims the unreferenced object at that moment and closes the port in
\* its finalizer, which the source does not decide.  Lines 52-62 are those
\* of a first connect: the flags, a new reader thread, get_info.
ConnectAgain(p, outcome, finalized) ==
    /\ CanCall
    /\ is_connected
    /\ serial_conn # 0
    /\ IF outcome = "open_fails"
       THEN /\ ~finalized
            /\ ConnectFails
       ELSE LET wrote == outcome = "opens"
                kept == IF finalized
                        THEN [conns EXCEPT ![serial_conn].is_open = FALSE]
                        ELSE conns
            IN  /\ conns' = Append(kept,
                       [NewSerial(p) EXCEPT
                           !.written = IF wrote THEN ConnectCommands ELSE <<>>])
                /\ serial_conn' = Len(conns) + 1
                /\ port' = Some(p)
                /\ is_connected' = TRUE
                /\ is_running' = TRUE
                /\ threads' = Append(threads, NewThread)
                /\ read_thread' = Len(threads) + 1
                /\ errors' = IF wrote THEN errors
                             ELSE Append(errors, SendError(GetInfo, Len(conns) + 1))
                /\ returned' = [op |-> "connect", result |-> TRUE]
    /\ calls' = calls + 1
    /\ UNCHANGED <<otherVars, targets, updates, merges, fg>>

NextReopen ==
    \/ \E p \in Ports, outcome \in ConnectOutcomes : Connect(p, outcome)
    \/ \E p \in Ports, outcome \in ConnectOutcomes, finalized \in BOOLEAN :
          ConnectAgain(p, outcome, finalized)
    \/ DisconnectSignal
    \/ DisconnectRelease
    \/ \E i \in 1..Len(threads) :
          \/ ReaderStart(i)
          \/ ReaderCheck(i)
          \/ \E n \in 0..MaxPieces : ReaderPollText(i, n)
          \/ ReaderLine(i)
          \/ ReaderEntry(i)

\* The peer's texts: a batch for target 3 on the first connection and one
\* for target 4 on every later one.
Reopenings == { << <<"UPD_A">>, <<"UPD_C">> >> }

InitReopen ==
    /\ InitReconnect
    /\ stream \in Reopenings

SpecReopen == InitReopen /\ [][NextReopen]_vars

\* Whether disconnect() was the last call of the foreground and has
\* returned.
DisconnectReturned == fg = "idle" /\ returned.op = "disconnect"

\* C32: once disconnect() has returned, and until the next call, no serial
\* connection this manager ever opened is open, is_connected is false, and
\* port and serial_conn are None.
C32_DisconnectReleasesEveryHandle ==
    DisconnectReturned =>
        /\ \A c \in 1..Len(conns) : ~conns[c].is_open
        /\ ~is_connected
        /\ port = None
        /\ serial_conn = 0

\* What disconnect() does release: the connection self.serial_conn refers
\* to when it is called, and the three attributes.
DisconnectReleasesCurrentHandle ==
    [][ DisconnectReturns =>
          /\ serial_conn # 0 => ~conns'[serial_conn].is_open
          /\ ~is_connected'
          /\ port' = None
          /\ serial_conn' = 0
      ]_vars

(***************************************************************************)
(* Claims checked under Spec: what a merge leaves to the operator.         *)
(***************************************************************************)
\* What the operator owns of a target: the override switch, the symbolic
\* state of every discrete channel and the override value of every
\* continuous one.
OperatorOwned(t) ==
    [override_enabled |-> t.override_enabled,
     channels |-> [n \in DOMAIN t.channels |->
                      IF IsDiscrete(t.channels[n])
                      THEN [state |-> t.channels[n].state]
                      ELSE [override_value |-> t.channels[n].override_value]]]

\* A step of TelemetryMerge: update_from_data alone assigns
\* last_update_time, and never the time it finds.
IsMergeStep == target'.last_update_time # target.last_update_time

\* C33: the merge of an inbound entry, whatever keys it carries, leaves the
\* target's override switch, every discrete channel's state and every
\* continuous channel's override value as they were, and changes no field of
\* a channel but its value.
C33_MergeLeavesOverrideStateAlone ==
    [][ IsMergeStep =>
          /\ OperatorOwned(target') = OperatorOwned(target)
          /\ DOMAIN target'.channels = DOMAIN target.channels
          /\ \A n \in DOMAIN target.channels :
                [target'.channels[n] EXCEPT !.value = target.channels[n].value]
                    = target.channels[n]
      ]_vars

\* The operator has switched override on, overridden a continuous channel
\* and put a discrete channel in a state; then an entry with a key named
\* override and a channels list was merged, which wrote other numbers into
\* both channels.
C33_Witness ==
    /\ target.override_enabled
    /\ "override" \in DOMAIN target.custom_data
    /\ \E n \in ContinuousNumbers :
          /\ target.channels[n].override_value # None
          /\ reported[n] # None
          /\ Some(target.channels[n].value) # target.channels[n].override_value
    /\ \E n \in DiscreteNumbers :
          /\ target.channels[n].state # "DEFAULT"
          /\ reported[n] # None

(***************************************************************************)
(* SpecRegistry: the registry's two read accessors, called by the          *)
(* foreground while a reader merges a batch.                               *)
(***************************************************************************)
\* The ids the foreground asks get_target for: two the peer reports and one
\* it never does.
AskedIds == {3, 4, 9}

\* ESPKenisisManager.get_target(target_id): self.targets.get(target_id).
GetTarget(target_id) ==
    /\ CanCall
    /\ calls' = calls + 1
    /\ returned' =
           [op |-> "get_target",
            target_id |-> target_id,
            result |-> IF target_id \in DOMAIN targets
                       THEN Some(targets[target_id]) ELSE None]
    /\ UNCHANGED <<otherVars, is_running, errors, conns, serial_conn, port,
                   is_connected, read_thread, threads, targets, updates, merges,
                   fg>>

\* The peer sends one batch, which reports target 4 before target 3.
RegistryTexts == { <<"UPD_B">> }

InitRegistry ==
    /\ InitManager
    /\ stream \in RegistryTexts

NextRegistry ==
    \/ \E p \in Ports, outcome \in ConnectOutcomes : Connect(p, outcome)
    \/ DisconnectSignal
    \/ DisconnectRelease
    \/ GetTargetIds
    \/ \E target_id \in AskedIds : GetTarget(target_id)
    \/ \E i \in 1..Len(threads) :
          \/ ReaderStart(i)
          \/ ReaderCheck(i)
          \/ \E n \in 0..MaxChunk : ReaderPoll(i, n)
          \/ ReaderReadFails(i)
          \/ ReaderLine(i)
          \/ ReaderEntry(i)

SpecRegistry == InitRegistry /\ [][NextRegistry]_vars

\* The foreground's call returns in this step.
Returns(op) == calls' = calls + 1 /\ returned'.op = op

\* C34: get_target_ids returns the ids of the registry as it is at the
\* call, each once and in ascending order; get_target(id) returns the
\* registry's Target for an id that is present and None for one that is
\* absent; neither changes the registry.
C34_AccessorsReadTheRegistry ==
    [][ /\ Returns("get_target_ids") =>
              LET result == returned'.result
              IN  /\ {result[k] : k \in 1..Len(result)} = DOMAIN targets
                  /\ Len(result) = Cardinality(DOMAIN targets)
                  /\ \A j, k \in 1..Len(result) : j < k => result[j] < result[k]
                  /\ targets' = targets
        /\ Returns("get_target") =>
              LET target_id == returned'.target_id
              IN  /\ target_id \in DOMAIN targets =>
                         returned'.result = Some(targets[target_id])
                  /\ target_id \notin DOMAIN targets => returned'.result = None
                  /\ targets' = targets
      ]_vars

\* get_target_ids has returned both ids of a batch that reported 4 before
\* 3.
C34_Witness ==
    /\ returned.op = "get_target_ids"
    /\ returned.result = <<3, 4>>
    /\ Len(merges) = 2 /\ merges[1].id = 4 /\ merges[2].id = 3

\* get_target has returned None for an id the registry does not hold, and
\* the registry's Target for one it holds.
GetTargetAnswers ==
    /\ returned.op = "get_target" =>
          \/ returned.result = None
          \/ returned.result[1].id = returned.target_id

\* Every channel of the target is as reset_overrides leaves it.
ChannelsReset(t) ==
    \A n \in DOMAIN t.channels :
        LET c == t.channels[n]
        IN  IF IsDiscrete(c)
            THEN c.state = "DEFAULT" /\ c.value = c.state_values["DEFAULT"]
            ELSE c.override_value = None /\ c.value = c.default_value

\* No channel of the target carries an override.
NothingOverridden(t) ==
    \A n \in DOMAIN t.channels :
        LET c == t.channels[n]
        IN  IF IsDiscrete(c) THEN c.state = "DEFAULT" ELSE c.override_value = None

\* C35: reset_overrides leaves every continuous channel without override
\* value and at its default value, every discrete channel in state DEFAULT
\* with the table's value for DEFAULT, and override_enabled false; when the
\* operator switches override on again before any channel is set, the
\* payload names the target, says override, and has an empty channel map.
\* (The two history variables are tested first because that is cheap: every
\* step of ResetOverrides clears them.)
C35_ResetOverridesClearsEverything ==
    [][ /\ (/\ intent' = [n \in DOMAIN intent |-> None]
            /\ reported' = [n \in DOMAIN reported |-> None]
            /\ ResetOverrides) =>
              /\ ChannelsReset(target')
              /\ ~target'.override_enabled
              /\ NothingOverridden(target')
        /\ (~target.override_enabled /\ target'.override_enabled
               /\ NothingOverridden(target) /\ ToggleOverride) =>
              /\ get_override_payload(target').override
              /\ DOMAIN get_override_payload(target').channels = {}
      ]_vars

\* A merge wrote a number into each of the eight channels, reset_overrides
\* put them all back, and the operator has switched override on again.
C35_Witness ==
    /\ "override" \in DOMAIN target.custom_data
    /\ ChannelsReset(target)
    /\ target.override_enabled
    /\ DOMAIN get_override_payload(target).channels = {}

(***************************************************************************)
(* SpecUI: ESPKenisisUI (src/ui/main_window.py) over its manager: the      *)
(* Connect button, the reader's target callback and the event loop's       *)
(* deferred rebuild of the target frames.                                  *)
(*                                                                         *)
(* The callback runs in the reader thread: the reader goes on only when    *)
(* the callback has handled the notification it was given.  The event loop *)
(* is the foreground: one step for the part of an iteration before the     *)
(* manager is called, one for the call, one for the rest of the handler.   *)
(* The window is rebuilt without error.                                    *)
(***************************************************************************)
\* The dict callback_on_targets_update is given: the aggregate of a batch
\* (manager.py 185-187) or the decoded record itself (line 147).
CallbackData(n) ==
    IF n.kind = "targets_update"
    THEN ("type" :> JStr("targets_update")) @@ ("targets" :> JList(n.targets))
    ELSE JsonDocument(n.record).val.dict

\* data["type"] == "targets_update"
IsTargetsUpdate(data) ==
    /\ "type" \in DOMAIN data
    /\ data["type"].t = "str"
    /\ data["type"].str = "targets_update"

\* The callback as it would be if it also forwarded a notification whose
\* `targets` list names an id without frame.
on_targets_update_forwarding_lists(u, data) ==
    LET by_id == /\ IsTargetsUpdate(data)
                 /\ "target_id" \in DOMAIN data
                 /\ data["target_id"].int \notin u.target_frames
        by_list == /\ IsTargetsUpdate(data)
                   /\ "targets" \in DOMAIN data
                   /\ \E k \in 1..Len(data["targets"].list) :
                         data["targets"].list[k] \notin u.target_frames
    IN  IF ~u.window THEN [u EXCEPT !.frame_update_pending = TRUE]
        ELSE IF by_id \/ by_list THEN [u EXCEPT !.events = Append(@, data)]
        ELSE u

\* ESPKenisisUI._on_targets_update(data), lines 443-495: without window the
\* rebuild is scheduled; otherwise the data is posted to the event loop
\* (json.dumps and write_event_value, read back with json.loads) when it is
\* a targets_update with a key target_id that has no frame, and dropped in
\* every other case.
on_targets_update(u, data) ==
    LET include_event ==
            /\ IsTargetsUpdate(data)
            /\ "target_id" \in DOMAIN data
            /\ data["target_id"].int \notin u.target_frames
    IN  IF ~u.window THEN [u EXCEPT !.frame_update_pending = TRUE]
        ELSE IF include_event THEN [u EXCEPT !.events = Append(@, data)]
        ELSE u

\* _update_target_frames and _recreate_window (lines 380-401, 543-622) with
\* _create_new_window_layout (306-330): a frame for every id of
\* get_target_ids(), and last_frame_update = time.time().
rebuild_frames(u, registry) ==
    [u EXCEPT !.target_frames = DOMAIN registry, !.last_frame_update = "recent"]

\* run(), lines 629-654, at the top of every iteration: the deferred
\* rebuild, at most once in three seconds.
pending_check(u, registry) ==
    IF u.frame_update_pending /\ u.last_frame_update # "recent"
    THEN [rebuild_frames(u, registry) EXCEPT !.frame_update_pending = FALSE]
    ELSE u

\* run(), lines 692-771: the event -TARGET-UPDATE- with the posted data.  A
\* target_id the registry holds, or a list of targets, without frame
\* schedules the rebuild; with a list the frames are rebuilt at once when
\* the last rebuild is more than five seconds ago, which is certain when
\* last_frame_update is 0.
handle_target_update(u, data, registry) ==
    IF ~IsTargetsUpdate(data) THEN u
    ELSE IF "target_id" \in DOMAIN data
    THEN IF /\ data["target_id"].int \in DOMAIN registry
            /\ data["target_id"].int \notin u.target_frames
         THEN [u EXCEPT !.frame_update_pending = TRUE]
         ELSE u
    ELSE IF "targets" \in DOMAIN data
    THEN IF \E k \in 1..Len(data["targets"].list) :
               data["targets"].list[k] \notin u.target_frames
         THEN IF u.last_frame_update = "zero"
              THEN [rebuild_frames(u, registry) EXCEPT !.frame_update_pending = TRUE]
              ELSE [u EXCEPT !.frame_update_pending = TRUE]
         ELSE u
    ELSE u

\* What the steps of the UI itself leave unchanged.
uiOthers == <<targetVars, chanVars, framerVars, conns, serial_conn, port,
              is_connected, read_thread, threads, targets, updates, merges,
              fg, calls, returned, inflight>>

\* The reader thread calls callback_on_targets_update.
OnTargetsUpdate ==
    /\ ui.seen < Len(updates)
    /\ ui' = [on_targets_update(ui, CallbackData(updates[ui.seen + 1]))
                 EXCEPT !.seen = @ + 1]
    /\ UNCHANGED uiOthers

\* The events window.read returns in the model: the Connect button, enabled
\* while the manager is not connected, and anything else, which is the
\* posted event if one is waiting and the timeout if not.
UiEvents == {"-CONNECT-", "__TIMEOUT__"}

\* One iteration of run() up to a call of the manager: window.read, the
\* deferred rebuild, and the handler of -TARGET-UPDATE-.
RunIteration(event) ==
    /\ ui.at = "read"
    /\ LET checked == pending_check(ui, targets)
       IN  IF event = "-CONNECT-"
           THEN /\ ~is_connected
                /\ calls < MaxCalls
                /\ ui' = [checked EXCEPT !.at = "connect"]
           ELSE ui' = IF checked.events = <<>> THEN checked
                      ELSE handle_target_update(
                               [checked EXCEPT !.events = Tail(@)],
                               Head(checked.events), targets)
    /\ UNCHANGED uiOthers

\* run(), line 666: self.manager.connect(port).
UiConnect(p, outcome) ==
    /\ ui.at = "connect"
    /\ ui.handled = calls
    /\ Connect(p, outcome)

\* run(), lines 667-678, after connect has returned: on success the rebuild
\* is scheduled and last_frame_update set to 0.
ConnectHandled ==
    /\ ui.at = "connect"
    /\ ui.handled < calls
    /\ ui' = [ui EXCEPT !.at = "read",
                        !.handled = calls,
                        !.frame_update_pending = IF returned.result THEN TRUE ELSE @,
                        !.last_frame_update = IF returned.result THEN "zero" ELSE @]
    /\ UNCHANGED uiOthers

\* Three seconds go by since the last rebuild.
ThreeSecondsPass ==
    /\ ui.last_frame_update = "recent"
    /\ ui' = [ui EXCEPT !.last_frame_update = "past"]
    /\ UNCHANGED uiOthers

\* One step of _read_serial by the i-th reader, which is not inside a
\* callback.
UiReaderSteps(i) ==
    /\ i <= Len(threads)
    /\ ui.seen = Len(updates)
    /\ \/ ReaderStart(i)
       \/ ReaderCheck(i)
       \/ \E n \in 0..MaxChunk : ReaderPoll(i, n)
       \/ ReaderLine(i)
       \/ ReaderEntry(i)

\* The peer's texts: an error and a batch for target 3; a record without
\* type and one of a type without handler.
UiTexts == { <<"ERR", "UPD_A">>, <<"NOTYPE", "UNK">> }

InitUI ==
    /\ InitManager
    /\ stream \in UiTexts

NextUI ==
    \/ \E event \in UiEvents : RunIteration(event)
    \/ \E p \in Ports, outcome \in ConnectOutcomes : UiConnect(p, outcome)
    \/ ConnectHandled
    \/ ThreeSecondsPass
    \/ OnTargetsUpdate
    \/ \E i \in 1..Len(threads) : UiReaderSteps(i)

SpecUI == InitUI /\ [][NextUI]_vars

\* SpecUI under fair scheduling: the reader thread and its callback go on,
\* window.read(timeout=REFRESH_RATE_MS) returns every 100 ms so that the
\* event loop keeps iterating and finishes a handler it has begun, and time
\* passes.  Nothing obliges the operator to press a button.
SpecUIFair ==
    /\ SpecUI
    /\ \A i \in 1..MaxCalls : WF_vars(UiReaderSteps(i))
    /\ WF_vars(OnTargetsUpdate)
    /\ WF_vars(RunIteration("__TIMEOUT__"))
    /\ WF_vars(ConnectHandled)
    /\ WF_vars(ThreeSecondsPass)

\* The callback has been given an aggregate notification that names a
\* target id for which the UI holds no frame.
UnframedTargetNotified ==
    \E k \in 1..ui.seen :
        /\ updates[k].kind = "targets_update"
        /\ \E j \in 1..Len(updates[k].targets) :
              updates[k].targets[j] \notin ui.target_frames

\* C36: whenever the callback has been given an aggregate notification
\* naming a target without frame, the UI eventually schedules a rebuild of
\* the frames (frame_update_pending becomes true).
C36_NewTargetSchedulesRebuild ==
    UnframedTargetNotified ~> ui.frame_update_pending

\* The same in one step: the callback, given such a notification, posts it
\* to the event loop or schedules the rebuild itself.
NewTargetForwardedByCallback ==
    [][ (/\ ui'.seen = ui.seen + 1
         /\ updates[ui'.seen].kind = "targets_update"
         /\ \E j \in 1..Len(updates[ui'.seen].targets) :
               updates[ui'.seen].targets[j] \notin ui.target_frames)
        => (ui'.frame_update_pending \/ Len(ui'.events) > Len(ui.events))
      ]_vars

(***************************************************************************)
(* Claims checked under SpecReconnect and SpecReopen: the readers and the  *)
(* flags of a manager.                                                     *)
(***************************************************************************)
\* Whether a reader thread is executing the loop of _read_serial (lines
\* 107-133): it is past the test of serial_conn and has not found
\* is_running false.
InReadLoop(th) == th.pc \in {"check", "poll", "line", "entry"}

\* The reader threads that are executing the read loop.
ReadersInLoop == {i \in 1..Len(threads) : InReadLoop(threads[i])}

\* C37: at most one reader thread of the manager is executing the read loop.
C37_AtMostOneReaderInLoop == Cardinality(ReadersInLoop) <= 1

\* Two readers about to read the same serial connection: both are at the
\* read of lines 109-112, which takes the connection from the shared
\* attribute self.serial_conn.
NoTwoReadersAtTheSameConnection ==
    ~ \E i, j \in 1..Len(threads) :
         /\ i # j
         /\ threads[i].pc = "poll"
         /\ threads[j].pc = "poll"
         /\ serial_conn # 0
         /\ conns[serial_conn].is_open

\* There is one reader in the loop as long as connect was called once.
OneReaderOnFirstConnection ==
    Len(conns) <= 1 => Cardinality(ReadersInLoop) <= 1

(***************************************************************************)
(* Claims checked under SpecManager: commands and the connection flags.    *)
(***************************************************************************)
\* The manager has no connection to write to.
Disconnected == ~is_connected \/ serial_conn = 0

\* The commands written so far to the connections opened so far.
WrittenTo(cs) == [c \in 1..Len(cs) |-> cs[c].written]

\* C38: while the manager is disconnected nothing is written to any
\* connection it has opened, whatever step is taken; and the override
\* button pressed then (send_target_override and _send_command) reports no
\* error, notifies nobody and changes nothing of the manager, the targets
\* differing only by the switch the button itself has toggled.
C38_NothingSentWhileDisconnected ==
    [][ Disconnected =>
          /\ \A c \in 1..Len(conns) : conns'[c].written = conns[c].written
          /\ Returns("send_target_override") =>
                /\ conns' = conns
                /\ errors' = errors
                /\ updates' = updates
                /\ <<is_connected', serial_conn', port', is_running',
                     read_thread', threads'>>
                      = <<is_connected, serial_conn, port, is_running,
                          read_thread, threads>>
                /\ targets' = [targets EXCEPT
                                  ![returned'.target_id].override_enabled = ~@]
      ]_vars

\* The override button was pressed after disconnect() had returned, for a
\* target a surviving reader had put back into the registry, and nothing
\* but the get_info of connect was ever written.
C38_Witness ==
    /\ returned.op = "send_target_override"
    /\ fg = "idle"
    /\ ~is_connected
    /\ Len(conns) = 1
    /\ ~conns[1].is_open
    /\ conns[1].written = <<GetInfo>>
    /\ targets[returned.target_id].override_enabled

\* C39: in every state, is_running implies is_connected, and is_connected
\* implies that serial_conn is not None.
C39_RunningImpliesConnectedImpliesHandle ==
    /\ is_running => is_connected
    /\ is_connected => serial_conn # 0

\* The second connection is up while a reader of the first is still in its
\* loop next to the new one.
C39_Witness ==
    /\ Len(conns) = 2
    /\ is_running
    /\ is_connected
    /\ serial_conn = 2
    /\ Cardinality(ReadersInLoop) = 2

\* The flags between the two: a reader has cleared is_running after an
\* error of its own, or disconnect has given the stop signal, and the
\* manager is still marked connected.
StoppedWhileConnected ==
    /\ ~is_running
    /\ is_connected
    /\ serial_conn # 0

(***************************************************************************)
(* SpecEncode: send_target_override in the foreground while the reader     *)
(* merges an entry into the same Target, both one channel at a time.       *)
(*                                                                         *)
(* The manager is connected and its registry holds target 3, on which the  *)
(* operator has switched override on and overridden channels 1 and 2.      *)
(* Neither thread holds a lock (the code has none): between two channels   *)
(* of one loop the other thread may run.                                   *)
(***************************************************************************)
\* The Target of the registry whose override is sent.
Sent == 3

\* The entries the reader merges: those of TelemetryEntries with a channels
\* list.
EncodeEntries ==
    {data \in TelemetryEntries :
        "channels" \in DOMAIN data /\ IsList(data["channels"])}

\* The numbers the operator has put on channels 1 and 2.
OverriddenTargets ==
    { [NewTarget(Sent) EXCEPT
          !.override_enabled = TRUE,
          !.channels[1] = set_override(@, v1),
          !.channels[2] = set_override(@, v2)] :
      v1 \in {1200, 1800}, v2 \in {1300} }

InitEncode ==
    /\ target = NewTarget(3)
    /\ intent = [n \in ContinuousNumbers |-> None]
    /\ reported = [n \in DOMAIN DefaultChannels |-> None]
    /\ ops = 0
    /\ chan = ContinuousChannel("Channel", 1, 0, 1000, 500)
    /\ chanOp = [op |-> "init", arg |-> 0]
    /\ stream = <<>>
    /\ wire = <<>>
    /\ buffer = <<>>
    /\ handed = <<>>
    /\ errors = <<>>
    /\ ui = UiConstructed
    /\ inflight = NothingInFlight
    /\ \E p \in Ports :
          /\ conns = <<[NewSerial(p) EXCEPT !.written = ConnectCommands]>>
          /\ port = Some(p)
    /\ serial_conn = 1
    /\ is_connected = TRUE
    /\ is_running = TRUE
    /\ read_thread = 1
    /\ threads = <<[NewThread EXCEPT !.pc = "entry"]>>
    /\ targets \in {(Sent :> t) : t \in OverriddenTargets}
    /\ updates = <<>>
    /\ merges = <<>>
    /\ fg = "idle"
    /\ calls = 1
    /\ returned = [op |-> "connect", result |-> TRUE]

\* What the steps of SpecEncode leave unchanged.
encodeOthers == <<targetVars, chanVars, framerVars, serial_conn, port,
                  is_connected, read_thread, threads, updates, fg, ui>>

\* The payloads of the states the target has been in since the encoder
\* began, the state `t` included, while the encoder is at work.
Existed(t) ==
    IF inflight.enc.on
    THEN inflight.existed \cup {get_override_payload(t)}
    ELSE inflight.existed

\* send_target_override(target), lines 83-86, and get_override_payload up
\* to its loop (target.py 46-54): the payload with id, override and no
\* channel.
EncodeBegin ==
    /\ fg = "idle"
    /\ calls + Len(merges) < MaxCalls
    /\ is_connected
    /\ ~inflight.enc.on
    /\ LET t == targets[Sent]
       IN  inflight' =
              [inflight EXCEPT
                  !.enc = [on |-> TRUE,
                           payload |-> [id |-> t.id,
                                        override |-> t.override_enabled,
                                        channels |-> EmptyDict],
                           next |-> 1],
                  !.existed = {get_override_payload(t)}]
    /\ UNCHANGED <<encodeOthers, conns, errors, targets, merges, calls, returned>>

\* One pass of `for ch_num, channel in self.channels.items()` (target.py
\* 55-59), the dict being in the order of the channel numbers.
EncodeChannel ==
    /\ inflight.enc.on
    /\ inflight.enc.payload.override
    /\ inflight.enc.next \in DOMAIN targets[Sent].channels
    /\ LET n == inflight.enc.next
           c == targets[Sent].channels[n]
           kept == \/ IsDiscrete(c) /\ c.state # "DEFAULT"
                   \/ IsContinuous(c) /\ c.override_value # None
       IN  inflight' =
              [inflight EXCEPT
                  !.enc.next = n + 1,
                  !.enc.payload.channels =
                      IF kept THEN DictUpdate(@, Str(n) :> PayloadValue(c)) ELSE @]
    /\ UNCHANGED <<encodeOthers, conns, errors, targets, merges, calls, returned>>

\* The loop is over, or was not entered: the payload is returned and
\* _send_command writes the record with one call of write (manager.py
\* 87, 94-98).
EncodeWrite(device_gone) ==
    /\ inflight.enc.on
    /\ \/ ~inflight.enc.payload.override
       \/ inflight.enc.next \notin DOMAIN targets[Sent].channels
    /\ send_command(SetOverrideCommand(inflight.enc.payload), device_gone)
    /\ inflight' = [inflight EXCEPT !.enc = NothingInFlight.enc]
    /\ calls' = calls + 1
    /\ returned' = [op |-> "send_target_override", target_id |-> Sent]
    /\ UNCHANGED <<encodeOthers, targets, merges>>

\* The reader calls target.update_from_data(target_data) (manager.py 176):
\* last_update_time is set (target.py 65).
MergeBegin(data) ==
    /\ calls + Len(merges) < MaxCalls
    /\ ~inflight.merge.on
    /\ targets' = [targets EXCEPT ![Sent].last_update_time = Len(merges) + 1]
    /\ inflight' =
          [inflight EXCEPT
              !.merge = [on |-> TRUE, data |-> data,
                         before |-> targets[Sent], next |-> 1]]
    /\ UNCHANGED <<encodeOthers, conns, errors, merges, calls, returned>>

\* One pass of `for i, value in enumerate(channel_array, 1)` (target.py
\* 82-85).
MergeChannel ==
    /\ inflight.merge.on
    /\ inflight.merge.next <= Len(inflight.merge.data["channels"].list)
    /\ LET i == inflight.merge.next
           value == inflight.merge.data["channels"].list[i]
           merged == IF i \in DOMAIN targets[Sent].channels
                     THEN [targets EXCEPT ![Sent].channels[i] = set_value(@, value)]
                     ELSE targets
       IN  /\ targets' = merged
           /\ inflight' = [inflight EXCEPT !.merge.next = i + 1,
                                           !.existed = Existed(merged[Sent])]
    /\ UNCHANGED <<encodeOthers, conns, errors, merges, calls, returned>>

\* The loop is over: the other keys are stored (target.py 88-90) and
\* update_from_data returns.
MergeEnd ==
    /\ inflight.merge.on
    /\ inflight.merge.next > Len(inflight.merge.data["channels"].list)
    /\ LET data == inflight.merge.data
           extra == [k \in (DOMAIN data) \ NotCustomKeys |-> data[k]]
       IN  /\ targets' = [targets EXCEPT
                             ![Sent].custom_data = DictUpdate(@, extra)]
           /\ merges' = Append(merges, [id |-> Sent, data |-> data])
    /\ inflight' = [inflight EXCEPT !.merge = NothingInFlight.merge]
    /\ UNCHANGED <<encodeOthers, conns, errors, calls, returned>>

NextEncode ==
    \/ EncodeBegin
    \/ EncodeChannel
    \/ \E device_gone \in BOOLEAN : EncodeWrite(device_gone)
    \/ \E data \in EncodeEntries : MergeBegin(data)
    \/ MergeChannel
    \/ MergeEnd

SpecEncode == InitEncode /\ [][NextEncode]_vars

\* The set_override records on the connection.
OverridesWritten(c) ==
    SelectSeq(c.written, LAMBDA command : command.command = "set_override")

\* C40: the payload of every set_override record written is the payload of
\* a state the target was in at some instant between the call of
\* send_target_override and the write.
C40_PayloadIsOneTargetState ==
    [][ (inflight.enc.on /\ ~inflight'.enc.on /\ conns' # conns) =>
          LET sent == OverridesWritten(conns'[serial_conn])
          IN  sent[Len(sent)].data \in inflight.existed
      ]_vars

\* Without a merge under way the record written is the payload of the
\* target as it is, and each write adds one whole record to the connection.
UndisturbedPayloadIsTheTargets ==
    [][ (inflight.enc.on /\ ~inflight'.enc.on /\ conns' # conns
           /\ Cardinality(inflight.existed) = 1) =>
          /\ conns'[serial_conn].written =
                Append(conns[serial_conn].written,
                       SetOverrideCommand(get_override_payload(targets[Sent])))
      ]_vars

\* A merge taken step by step ends as update_from_data says.
StepwiseMergeIsUpdateFromData ==
    [][ (inflight.merge.on /\ ~inflight'.merge.on) =>
          targets'[Sent] = update_from_data(inflight.merge.before,
                                            inflight.merge.data,
                                            targets[Sent].last_update_time)
      ]_vars

====
